---------------------------- MODULE Spec2Model ----------------------------
(***************************************************************************)
(* A model of print3rs: the G-code line encoder (gcode-serializer), the    *)
(* acknowledgement parser and the session loop of print3rs-core.           *)
(*                                                                         *)
(* Bytes are one-character strings; a line is a sequence of them.          *)
(* Option<T> is a sequence of length at most one: None is <<>> and         *)
(* Some(x) is <<x>>.                                                       *)
(***************************************************************************)
EXTENDS Integers, Sequences, FiniteSets, TLC

(***************************************************************************)
(* Bounds of the model.                                                    *)
(***************************************************************************)
\* requests issued over one run of the session model
MaxSends == 2
\* inbound lines read by the session loop over one run
MaxLines == 2
\* sequenced/unsequenced serialize calls over one run of the encoder model
MaxCalls == 3
\* requests issued over one run of the burst model
MaxBurst == 5
\* inbound lines read over one run of the burst model
MaxBurstLines == 1
\* requests issued over one run of the replay model
MaxReplay == 3
\* inbound lines read over one run of the replay model
MaxReplayLines == 2
\* requests the Printer's methods issue over one run of the printer model
MaxPrinterSends == 2
\* requests offered over one run of the backpressure model, more than the
\* queue takes, and how many of them, the first ones, may be awaited
MaxOffered == 17
MaxAwaited == 2
\* calls on the macro table over one run of the macro model
MaxMacroCalls == 3
\* requests the tasks send and lines read over one run of the task model
MaxTaskSends == 2
MaxTaskLines == 2
\* requests the tasks send over one run of the registry model
MaxRegistrySends == 2
\* requests sent and lines read over one run of the raw-request model
MaxRawSends == 3
MaxRawLines == 2

\* requests sent and lines read over one run of the partial-read model
MaxPartialSends == 2
MaxPartialLines == 2

\* requests sent over one run of the progress model
MaxProgressSends == 21
\* the acknowledgements, counted from the first, that may arrive in two parts
MaxSplitAcks == 4

\* requests sent and lines read over one run of the whole-line model
MaxWholeLineSends == 2
MaxWholeLineLines == 1

\* macro definitions made in one run of the command model
MaxCommandMacros == 1

\* macro definitions made before the insertion that is followed call by call
MaxInsertionMacros == 2

\* requests sent and lines read over one run of the vocabulary model
MaxVocabularySends == 2
MaxVocabularyLines == 1
\* macro definitions made in a run that expands a list of codes
MaxExpandCalls == 1
\* serial ports auto-connect finds, and lines read while it probes one
MaxPorts == 2
MaxProbeLines == 2
\* lines the device sends to a lagging log task
MaxLagLines == 66
\* requests the print tasks send and lines read over one run of the print
\* model
MaxPrintSends == 3
MaxPrintLines == 2
\* requests the ending tasks send and lines read over one run of the job
\* model
MaxJobSends == 3
MaxJobLines == 2

(***************************************************************************)
(* Program constants.                                                      *)
(***************************************************************************)
\* mpsc::channel::<SendContent>(16)
QueueCap == 16
\* `if pending_responses.len() < 4`
PendingCap == 4
\* broadcast::channel(64), the lines the response channel retains
BroadcastCap == 64

None == <<>>
Some(x) == <<x>>

(***************************************************************************)
(* Bytes.                                                                  *)
(***************************************************************************)
Digits == <<"0", "1", "2", "3", "4", "5", "6", "7", "8", "9">>

IsDigit(c) == \E i \in 1..10 : Digits[i] = c

DigitVal(c) == (CHOOSE i \in 1..10 : Digits[i] = c) - 1

\* the ASCII table of the bytes the model uses
Ascii ==
  { <<"\n", 10>>, <<"\r", 13>>, <<"\t", 9>>, <<" ", 32>>,
    <<"*", 42>>, <<"+", 43>>, <<"-", 45>>, <<".", 46>>,
    <<":", 58>>, <<";", 59>>, <<"0", 48>>, <<"1", 49>>, <<"2", 50>>,
    <<"3", 51>>, <<"4", 52>>, <<"5", 53>>, <<"6", 54>>,
    <<"7", 55>>, <<"8", 56>>, <<"9", 57>>, <<"B", 66>>,
    <<"D", 68>>, <<"E", 69>>, <<"G", 71>>, <<"K", 75>>,
    <<"M", 77>>, <<"N", 78>>, <<"O", 79>>, <<"P", 80>>,
    <<"R", 82>>, <<"S", 83>>, <<"T", 84>>, <<"X", 88>>,
    <<"Y", 89>>, <<"b", 98>>, <<"d", 100>>, <<"e", 101>>,
    <<"g", 103>>, <<"k", 107>>, <<"m", 109>>, <<"n", 110>>,
    <<"o", 111>>, <<"p", 112>>, <<"r", 114>>, <<"s", 115>>,
    <<"t", 116>>, <<"x", 120>>, <<"y", 121>> }

Ord(c) == (CHOOSE p \in Ascii : p[1] = c)[2]

Chr(n) == (CHOOSE p \in Ascii : p[2] = n)[1]

\* char::to_ascii_uppercase
ToAsciiUpper(c) == IF Ord(c) >= 97 /\ Ord(c) <= 122 THEN Chr(Ord(c) - 32) ELSE c

\* the case folding of winnow's Caseless (eq_ignore_ascii_case)
ToAsciiLower(c) == IF Ord(c) >= 65 /\ Ord(c) <= 90 THEN Chr(Ord(c) + 32) ELSE c

(***************************************************************************)
(* gcode-serializer: the line encoder.                                     *)
(***************************************************************************)
I32Max == 2147483647
I32Min == -I32Max - 1

\* i32 addition of one wraps (AtomicI32::fetch_add)
WrappingInc(x) == IF x = I32Max THEN I32Min ELSE x + 1

RECURSIVE NatDigits(_)
NatDigits(n) ==
  IF n < 10 THEN <<Digits[n + 1]>>
            ELSE NatDigits(n \div 10) \o <<Digits[(n % 10) + 1]>>

\* itoa::Buffer::format: shortest decimal text, '-' for a negative number
itoa(n) == IF n < 0 THEN <<"-">> \o NatDigits(-n) ELSE NatDigits(n)

RECURSIVE XorBits(_, _, _)
XorBits(a, b, k) ==
  IF k = 0 THEN 0
           ELSE (((a % 2) + (b % 2)) % 2) + 2 * XorBits(a \div 2, b \div 2, k - 1)

\* u8 ^ u8
Xor8(a, b) == XorBits(a, b, 8)

\* GcodeLineWriter::checksum: self.checksum ^= byte, for every byte of buf
RECURSIVE checksum(_, _)
checksum(w, buf) ==
  IF buf = <<>> THEN w
  ELSE checksum([w EXCEPT !.checksum = Xor8(@, Ord(Head(buf)))], Tail(buf))

\* GcodeLineWriter::write: put_slice, then checksum
write(w, buf) == checksum([w EXCEPT !.buffer = @ \o buf], buf)

\* GcodeLineWriter::finish: '*' and the checksum for a sequenced line, then '\n'
finish(w) ==
  LET starred == IF w.sequence # None
                   THEN [w EXCEPT !.buffer = @ \o <<"*">> \o itoa(w.checksum)]
                   ELSE w
  IN  [starred EXCEPT !.buffer = @ \o <<"\n">>]

(* The values handed to the encoder.  A value is a record                  *)
(*   [kind, name, v, text, fields]                                         *)
(* of kind "unit_struct" (name), "struct" (name, fields: a sequence of     *)
(* [key, value] with scalar values), "i32" (v), "str" (text), "none", or   *)
(* "f32", whose text field holds the shortest round-trip decimal text ryu  *)
(* prints for it (floating point is outside the model).                    *)
Value(kind, name, v, text, fields) ==
  [kind |-> kind, name |-> name, v |-> v, text |-> text, fields |-> fields]

I32(v) == Value("i32", <<>>, v, <<>>, <<>>)
F32(text) == Value("f32", <<>>, 0, text, <<>>)
Str(text) == Value("str", <<>>, 0, text, <<>>)
U8(v) == Value("u8", <<>>, v, <<>>, <<>>)
Tuple(elements) == Value("tuple", <<>>, 0, <<>>, elements)
NoneValue == Value("none", <<>>, 0, <<>>, <<>>)
UnitStruct(name) == Value("unit_struct", name, 0, <<>>, <<>>)
Struct(name, fields) == Value("struct", name, 0, <<>>, fields)
Field(key, value) == [key |-> key, value |-> value]

\* ser::Serializer for GcodeLineWriter, the scalar methods
serialize_scalar(w, t) ==
  CASE t.kind = "i32" -> write(w, itoa(t.v))
    [] t.kind = "f32" -> write(w, t.text)
    [] t.kind = "str" -> write(w, t.text)
    [] t.kind = "none" -> w
    [] t.kind = "unit_struct" -> write(w, t.name)
    [] t.kind = "u8" -> write(w, itoa(t.v))

\* SerializeStruct::serialize_field: the upper-cased first char of the key,
\* then the value
serialize_field(w, key, value) ==
  serialize_scalar(write(w, <<ToAsciiUpper(key[1])>>), value)

RECURSIVE serialize_fields(_, _)
serialize_fields(w, fields) ==
  IF fields = <<>> THEN w
  ELSE serialize_fields(serialize_field(w, Head(fields).key, Head(fields).value),
                        Tail(fields))

\* ser::Serializer::serialize_struct writes the name; the fields follow
serialize_struct(w, t) == serialize_fields(write(w, t.name), t.fields)

RECURSIVE serialize_elements(_, _)
\* SerializeTuple::serialize_element, for each element in turn
serialize_elements(w, elements) ==
  IF elements = <<>> THEN w
  ELSE serialize_elements(serialize_scalar(w, Head(elements)), Tail(elements))

\* GcodeLineWriter::serialize
serialize_value(w, t) ==
  IF t.kind = "struct" THEN serialize_struct(w, t)
  ELSE IF t.kind = "tuple" THEN serialize_elements(w, t.fields)
  ELSE serialize_scalar(w, t)

GcodeLineWriter(buffer, sequence) ==
  [buffer |-> buffer, sequence |-> sequence, checksum |-> 0]

\* a fetch that leaves the counter as it was
fetch_without_add(counter) == [prev |-> counter, next |-> counter]

\* SEQUENCE.fetch_add(1, SeqCst): the previous value is returned, the
\* counter holds the next one
fetch_add(counter) == [prev |-> counter, next |-> WrappingInc(counter)]

\* a start_line that puts 'N' and the number in the buffer past the checksum
start_line_unchecked(sequence) ==
  GcodeLineWriter(<<"N">> \o itoa(sequence), Some(sequence))

\* Serializer::start_line: the writer after 'N' and the sequence number
start_line(sequence) ==
  write(write(GcodeLineWriter(<<>>, Some(sequence)), <<"N">>), itoa(sequence))

\* Serializer::serialize, after the sequence number was taken
serialize(sequence, t) == finish(serialize_value(start_line(sequence), t)).buffer

\* an unsequenced serialization that takes a sequence number all the same
serialize_unsequenced_counting(counter, t) ==
  [SEQUENCE |-> fetch_add(counter).next,
   bytes |-> finish(serialize_value(GcodeLineWriter(<<>>, None), t)).buffer]

\* Serializer::serialize_unsequenced_into: the counter after the call and
\* the bytes put in the buffer
serialize_unsequenced_into(counter, t) ==
  [SEQUENCE |-> counter,
   bytes |-> finish(serialize_value(GcodeLineWriter(<<>>, None), t)).buffer]

\* Serializer::serialize_unsequenced
serialize_unsequenced(counter, t) == serialize_unsequenced_into(counter, t)

\* test::G1234 { x: -1, y: 2.3 } and test::M1234
G1234 ==
  Struct(<<"G", "1", "2", "3", "4">>,
         << Field(<<"x">>, I32(-1)), Field(<<"y">>, F32(<<"2", ".", "3">>)) >>)

M1234 == UnitStruct(<<"M", "1", "2", "3", "4">>)

\* the values the model serializes
Values ==
  { G1234, M1234,
    Struct(<<"G", "1">>, << Field(<<"x">>, I32(10)), Field(<<"e">>, NoneValue) >>),
    Str(<<"M", "1", "1", "5">>) }

(***************************************************************************)
(* print3rs-core/src/response.rs: the acknowledgement parser.  A parser    *)
(* takes the input left and returns [ok, val, rest].                       *)
(***************************************************************************)
RECURSIVE DropWhile(_, _)
DropWhile(s, set) ==
  IF s # <<>> /\ Head(s) \in set THEN DropWhile(Tail(s), set) ELSE s

\* winnow::ascii::space0
space0(input) == DropWhile(input, {" ", "\t"})

\* winnow::ascii::multispace0
multispace0(input) == DropWhile(input, {" ", "\t", "\r", "\n"})

Matched(val, rest) == [ok |-> TRUE, val |-> val, rest |-> rest]
Backtrack(input) == [ok |-> FALSE, val |-> None, rest |-> input]

\* a tag matched byte for byte
CaseSensitive(tag, input) ==
  IF Len(input) >= Len(tag) /\ SubSeq(input, 1, Len(tag)) = tag
    THEN Matched(None, SubSeq(input, Len(tag) + 1, Len(input)))
    ELSE Backtrack(input)

\* winnow::ascii::Caseless(tag)
Caseless(tag, input) ==
  IF /\ Len(input) >= Len(tag)
     /\ \A i \in 1..Len(tag) : ToAsciiLower(input[i]) = ToAsciiLower(tag[i])
    THEN Matched(None, SubSeq(input, Len(tag) + 1, Len(input)))
    ELSE Backtrack(input)

\* opt(literal byte): the input after the byte when it is there
OptByte(c, input) == IF input # <<>> /\ Head(input) = c THEN Tail(input) ELSE input

RECURSIVE DigitRun(_)
DigitRun(s) ==
  IF s # <<>> /\ IsDigit(Head(s)) THEN <<Head(s)>> \o DigitRun(Tail(s)) ELSE <<>>

\* the digits folded with checked_mul and checked_add: None on overflow of
\* i32::MAX
RECURSIVE DecValue(_, _)
DecValue(digits, acc) ==
  IF digits = <<>> THEN Some(acc)
  ELSE IF acc > (I32Max - DigitVal(Head(digits))) \div 10 THEN None
  ELSE DecValue(Tail(digits), 10 * acc + DigitVal(Head(digits)))

\* the digits of -i32::MIN, which has no positive counterpart
MinDigits == <<"2", "1", "4", "7", "4", "8", "3", "6", "4", "8">>

\* winnow::ascii::dec_int::<i32>: an optional sign, then decimal digits; no
\* digit or a value outside i32 is an error
dec_int(input) ==
  LET signed == input # <<>> /\ Head(input) \in {"+", "-"}
      neg    == signed /\ Head(input) = "-"
      body   == IF signed THEN Tail(input) ELSE input
      digits == DigitRun(body)
      abs    == DecValue(digits, 0)
      rest   == SubSeq(body, Len(digits) + 1, Len(body))
  IN  IF digits = <<>> THEN Backtrack(input)
      ELSE IF neg /\ digits = MinDigits THEN Matched(I32Min, rest)
      ELSE IF abs = None THEN Backtrack(input)
      ELSE Matched(IF neg THEN -abs[1] ELSE abs[1], rest)

\* terminated(opt(dec_int), multispace0)
OptDecInt(input) ==
  LET d == dec_int(input)
  IN  IF d.ok THEN Matched(Some(d.val), multispace0(d.rest))
              ELSE Matched(None, multispace0(input))

Response(tag, seq) == [tag |-> tag, seq |-> seq]

\* an ok parser that takes a missing number for 0 (unwrap_or_default)
ok_response_default(input) ==
  LET t == Caseless(<<"o", "k">>, space0(input))
      n == OptDecInt(OptByte("N", space0(OptByte(":", t.rest))))
      seq == IF n.val = None THEN Some(0) ELSE n.val
  IN  IF t.ok THEN Matched(Response("Ok", seq), n.rest) ELSE Backtrack(input)

\* response.rs ok_response
ok_response(input) ==
  LET t == Caseless(<<"o", "k">>, space0(input))
      n == OptDecInt(OptByte("N", space0(OptByte(":", t.rest))))
  IN  IF t.ok THEN Matched(Response("Ok", n.val), n.rest) ELSE Backtrack(input)

\* a resend parser that wants an 'N' before the number
resend_response_with_N(input) ==
  LET t == Caseless(<<"R", "e", "s", "e", "n", "d", ":">>, space0(input))
      s == space0(t.rest)
      n == OptDecInt(Tail(s))
  IN  IF t.ok /\ s # <<>> /\ Head(s) = "N"
        THEN Matched(Response("Resend", n.val), n.rest)
        ELSE Backtrack(input)

\* response.rs resend_response
resend_response(input) ==
  LET t == Caseless(<<"R", "e", "s", "e", "n", "d", ":">>, space0(input))
      n == OptDecInt(space0(t.rest))
  IN  IF t.ok THEN Matched(Response("Resend", n.val), n.rest) ELSE Backtrack(input)

\* response.rs response: alt((ok_response, resend_response))
response(input) ==
  IF ok_response(input).ok THEN ok_response(input) ELSE resend_response(input)

\* winnow Parser::parse_next: the parser must match, whatever is left
parse_next(input) == response(input)

\* winnow Parser::parse: the parser must match and leave nothing of the input
parse(input) ==
  LET r == response(input)
  IN  IF r.ok /\ r.rest = <<>> THEN r ELSE Backtrack(input)

(***************************************************************************)
(* print3rs-core/src/lib.rs: Printer, Socket and printer_com_task.         *)
(*                                                                         *)
(* One run of the model is one session.  The socket clones of Producers    *)
(* stay alive for the whole run, so the broadcast always has a receiver    *)
(* and the outbound channel always has a sender.                           *)
(***************************************************************************)
VARIABLES
  printer,            \* the Printer enum: "Disconnected" or "Connected"
  com_task,           \* the spawned printer_com_task: "none", "running" or
                      \* "exited" (returned, or aborted and dropped)
  gcoderx,            \* the mpsc channel: the SendContent values queued
  pending_responses,  \* the BTreeMap: key |-> [responder, content]
  read_disabled,      \* select!: the read branch completed without matching
                      \* Ok(1..) and is disabled for the rest of this select!
  transport,          \* what was written to the stream, one element per
                      \* write_all
  responses,          \* what responsetx.send published, in order
  inbound,            \* the lines read_line returned, in order
  outcome,            \* the Error the last Socket or Printer call returned:
                      \* None when it returned Ok
  sequence,           \* the counter of the Socket's Sequenced serializer
  oneshot,            \* the oneshot channels created, by id:
                      \* [state: "open" | "sent" | "dropped", sends]
  pc,                 \* per producer: "idle", or "ready" with a reserved slot
  item,               \* per producer: the SendContent it is about to send
  sends,              \* requests started
  buf,                \* the bytes the read_line future in flight has taken
                      \* off the stream, of a line not yet complete
  wire,               \* the bytes of the device's last line that are still
                      \* unread on the stream
  SEQUENCE,           \* gcode-serializer's static SEQUENCE
  lines_out,          \* the lines the encoder threads returned
  held,               \* per encoder thread: the sequence number it took
  macros,             \* Commander.macros: uppercase name |-> stored expansion
  macro_call,         \* the last call on the macro table and what it returned
  tasks,              \* Commander.tasks: name |-> the producer its
                      \* BackgroundTask runs as
  task,               \* per producer: the background task spawned as it
  applied             \* the last application of a function of the commands
                      \* crate: its inputs and what it returned

vars ==
  << printer, com_task, gcoderx, pending_responses, read_disabled, transport,
     responses, inbound, outcome, sequence, oneshot, pc, item, sends, buf, wire,
     SEQUENCE, lines_out, held, macros, macro_call, tasks, task, applied >>

sessionVars ==
  << printer, com_task, gcoderx, pending_responses, read_disabled, transport,
     responses, inbound, outcome, sequence, oneshot, pc, item, sends, buf,
     wire >>

encoderVars == << SEQUENCE, lines_out, held >>

commandVars == << macros, macro_call, tasks, task, applied >>

Producers == {"p1", "p2"}
Threads == {"t1", "t2"}

\* SendContent::new
SendContent(content, seq, responder) ==
  [content |-> content, sequence |-> seq, responder |-> responder]

NoItem == SendContent(<<>>, None, None)

\* the gcodes the producers send, and the bytes send_raw is given
Gcodes == {M1234}
RawBytes == {<<"M", "1", "1", "5", "\n">>}

\* Sequenced::default(): a fresh counter
SequencedDefault == 1

\* Sequenced::serialize: the next number of the shared counter and the
\* sequenced line that carries it
SequencedSerialize(counter, t) ==
  [sequence |-> fetch_add(counter).prev,
   next     |-> fetch_add(counter).next,
   bytes    |-> serialize(fetch_add(counter).prev, t)]

\* the responder ids held by a collection of SendContent values
Responders(entries) ==
  UNION {{e.responder[i] : i \in 1..Len(e.responder)} : e \in entries}

\* the responder ids held by the pending-request table
TableResponders(map) == {map[k].responder : k \in DOMAIN map}

Range(f) == {f[x] : x \in DOMAIN f}

\* dropping oneshot::Sender values: a receiver still waiting gets RecvError
DropSenders(os, ids) ==
  [i \in DOMAIN os |->
     IF i \in ids /\ os[i].state = "open" THEN [os[i] EXCEPT !.state = "dropped"]
                                          ELSE os[i]]

\* oneshot::Sender::send(())
SendOneshot(os, id) ==
  [os EXCEPT ![id] = [state |-> IF @.state = "open" THEN "sent" ELSE @.state,
                      sends |-> @.sends + 1]]

NewOneshot == [state |-> "open", sends |-> 0]

\* an insert that keeps the entry already under the key (entry().or_insert)
InsertIfVacant(map, key, value) ==
  [k \in DOMAIN map \cup {key} |-> IF k \in DOMAIN map THEN map[k] ELSE value]

\* BTreeMap::insert
Insert(map, key, value) ==
  [k \in DOMAIN map \cup {key} |-> IF k = key THEN value ELSE map[k]]

\* a remove that takes nothing out of the map
RemoveNothing(map, key) == map

\* a remove that finds only the entry of an unsequenced request
RemoveUnsequenced(map, key) ==
  [k \in DOMAIN map \ ({key} \cap {None}) |-> map[k]]

\* BTreeMap::remove
Remove(map, key) == [k \in DOMAIN map \ {key} |-> map[k]]

EmptyMap == [k \in {} |-> NoItem]

\* a producer that is no background task: a caller that holds a Socket
NoTask ==
  [description |-> "none", state |-> "none", waiting |-> None, at |-> "none",
   cursor |-> 0, acts |-> 0, codes |-> <<>>]

\* no function was applied yet
NoApplication == [op |-> "none", input |-> <<>>, output |-> <<>>]

\* no call was made on the macro table yet
NoCall == [n |-> 0, op |-> "none", name |-> <<>>, steps |-> <<>>, result |-> "Ok"]

Init ==
  /\ printer = "Disconnected"
  /\ com_task = "none"
  /\ gcoderx = <<>>
  /\ pending_responses = EmptyMap
  /\ read_disabled = FALSE
  /\ transport = <<>>
  /\ responses = <<>>
  /\ inbound = <<>>
  /\ outcome = None
  /\ sequence = SequencedDefault
  /\ oneshot = <<>>
  /\ pc = [p \in Producers |-> "idle"]
  /\ item = [p \in Producers |-> NoItem]
  /\ sends = 0
  /\ buf = <<>>
  /\ wire = <<>>
  /\ SEQUENCE = 1
  /\ lines_out = <<>>
  /\ held = [t \in Threads |-> None]
  /\ macros = EmptyMap
  /\ macro_call = NoCall
  /\ tasks = EmptyMap
  /\ task = [p \in Producers |-> NoTask]
  /\ applied = NoApplication

(* ------------------------- the device's lines ------------------------ *)

\* the sequence numbers the device names in its lines
Numbers == {1, 2}

OkLine == <<"o", "k", "\n">>
OkN(k) == <<"o", "k", " ", "N">> \o itoa(k) \o <<"\n">>
ResendLine(k) == <<"R", "e", "s", "e", "n", "d", ":", " ">> \o itoa(k) \o <<"\n">>
ResendN(k) == <<"R", "e", "s", "e", "n", "d", ":", " ", "N">> \o itoa(k) \o <<"\n">>
TemperatureLine == <<"T", ":", "2", "5", "\n">>
ResendBare == <<"R", "e", "s", "e", "n", "d", ":", "\n">>

\* the lines the device sends in the model
InboundLines ==
  {OkLine, TemperatureLine, ResendLine(1), ResendN(1)} \cup {OkN(k) : k \in Numbers}

\* lines of a device, with the acknowledgement each is to give (None: it is
\* no acknowledgement) and whether the line has one of the forms `ok`,
\* `ok N<d>`, `ok: <d>`, `Resend: <d>`, `Resend:` in any case after leading
\* whitespace
Vocabulary ==
  { [line |-> <<"o", "k", "\n">>,
     ack |-> Some(Response("Ok", None)), listed |-> TRUE],
    [line |-> <<"O", "K", "\n">>,
     ack |-> Some(Response("Ok", None)), listed |-> TRUE],
    [line |-> <<" ", "\t", "o", "k", "\n">>,
     ack |-> Some(Response("Ok", None)), listed |-> TRUE],
    [line |-> <<"o", "k", " ", "N", "1", "\n">>,
     ack |-> Some(Response("Ok", Some(1))), listed |-> TRUE],
    [line |-> <<"O", "k", " ", "N", "2", "\n">>,
     ack |-> Some(Response("Ok", Some(2))), listed |-> TRUE],
    [line |-> <<"o", "k", ":", " ", "1", "\n">>,
     ack |-> Some(Response("Ok", Some(1))), listed |-> TRUE],
    [line |-> <<" ", "O", "K", ":", " ", "2", "\n">>,
     ack |-> Some(Response("Ok", Some(2))), listed |-> TRUE],
    [line |-> <<"R", "e", "s", "e", "n", "d", ":", " ", "1", "\n">>,
     ack |-> Some(Response("Resend", Some(1))), listed |-> TRUE],
    [line |-> <<"R", "E", "S", "E", "N", "D", ":", " ", "1", "\n">>,
     ack |-> Some(Response("Resend", Some(1))), listed |-> TRUE],
    [line |-> <<"R", "e", "s", "e", "n", "d", ":", "\n">>,
     ack |-> Some(Response("Resend", None)), listed |-> TRUE],
    [line |-> <<"\t", "r", "e", "s", "e", "n", "d", ":", "\n">>,
     ack |-> Some(Response("Resend", None)), listed |-> TRUE],
    [line |-> <<"o", "k", " ", "1", "\n">>,
     ack |-> Some(Response("Ok", Some(1))), listed |-> FALSE],
    [line |-> <<"o", "k", ":", "N", "1", "\n">>,
     ack |-> Some(Response("Ok", Some(1))), listed |-> FALSE],
    [line |-> <<"o", "k", "N", "1", "\n">>,
     ack |-> Some(Response("Ok", Some(1))), listed |-> FALSE],
    [line |-> <<"o", "k", " ", "-", "1", "\n">>,
     ack |-> Some(Response("Ok", Some(-1))), listed |-> FALSE],
    [line |-> <<"o", "k", " ", "+", "1", "\n">>,
     ack |-> Some(Response("Ok", Some(1))), listed |-> FALSE],
    [line |-> <<"R", "e", "s", "e", "n", "d", ":", "1", "\n">>,
     ack |-> Some(Response("Resend", Some(1))), listed |-> FALSE],
    [line |-> <<"T", ":", "2", "5", "\n">>,
     ack |-> None, listed |-> FALSE],
    [line |-> <<"o", "k", " ", "T", ":", "2", "5", "\n">>,
     ack |-> None, listed |-> FALSE],
    [line |-> <<"o", "k", " ", "N", " ", "1", "\n">>,
     ack |-> None, listed |-> FALSE],
    [line |-> <<"R", "e", "s", "e", "n", "d", ":", " ", "N", "1", "\n">>,
     ack |-> None, listed |-> FALSE],
    [line |-> <<"o", " ", "k", "\n">>,
     ack |-> None, listed |-> FALSE],
    [line |-> <<"o", "k", " ", "N", "1", " ", "x", "\n">>,
     ack |-> None, listed |-> FALSE],
    [line |-> <<"k", "\n">>,
     ack |-> None, listed |-> FALSE],
    [line |-> <<"\r", "o", "k", "\n">>,
     ack |-> None, listed |-> FALSE] }

VocabularyLines == {v.line : v \in Vocabulary}

\* lines that are one acknowledgement form up to trailing whitespace
WholeForms ==
  { OkLine, OkN(1), ResendLine(1), ResendBare,
    <<"o", "k", " ", "\r", "\n">>,
    <<"o", "k", " ", "N", "1", " ", " ", "\n">> }

\* lines that start with an acknowledgement form and go on with other content
TrailingContent ==
  { <<"o", "k", " ", "T", ":", "2", "5", "\n">>,
    <<"o", "k", " ", "N", "1", " ", "P", "1", "5", " ", "B", "3", "\n">>,
    <<"o", "k", " ", "o", "k", "\n">>,
    <<"o", "k", " ", "N", "1", " ", "o", "k", "\n">>,
    <<"R", "e", "s", "e", "n", "d", ":", " ", "1", " ", "o", "k", "\n">>,
    <<"R", "e", "s", "e", "n", "d", ":", " ", "T", ":", "2", "5", "\n">> }

WholeLineLines == WholeForms \cup TrailingContent

\* the acknowledgements of the requests of the progress model, and what is
\* left of each when its first two bytes are lost
AcknowledgeLines ==
  {OkN(k) : k \in 1..(MaxProgressSends + 1)}
    \cup {Tail(Tail(OkN(k))) : k \in 1..(MaxProgressSends + 1)}

\* the acknowledgement parsed out of each of them, as printer_com_task
\* does with `response.parse(buf.as_bytes())`
Parsed ==
  [line \in InboundLines \cup {ResendBare} \cup VocabularyLines
           \cup AcknowledgeLines \cup WholeLineLines |-> parse(line)]

(* ------------------------------ Printer ------------------------------ *)


\* Printer::connect on a Disconnected printer: Printer::new spawns the loop
Connect ==
  /\ printer = "Disconnected"
  /\ UNCHANGED << inbound, outcome >>
  /\ com_task = "none"
  /\ printer' = "Connected"
  /\ com_task' = "running"
  /\ sequence' = SequencedDefault
  /\ UNCHANGED << gcoderx, pending_responses, read_disabled, transport,
                  responses, oneshot, pc, item, sends >>
  /\ UNCHANGED << buf, wire, encoderVars, commandVars >>

(* ------------------------------- Socket ------------------------------ *)

\* the caller p of send_unsequenced is polled: it is a plain holder of a
\* Socket, or the task of start_repeat or send_gcodes, not aborted, not
\* ended, and not awaiting a response that has not come
Polled(p) ==
  \/ task[p].state = "none"
  \/ /\ task[p].state = "running"
     /\ task[p].description \in {"repeat", "gcodes"}
     /\ IF task[p].waiting = None THEN TRUE
        ELSE oneshot[task[p].waiting[1]].state # "open"

\* the receiver send_unsequenced returned, which a task awaits next
Awaits(p, id) ==
  IF task[p].state = "none" THEN task
  ELSE [task EXCEPT ![p].waiting = Some(id), ![p].acts = @ + 1,
                    ![p].codes = IF @ = <<>> THEN @ ELSE Tail(@)]

\* a channel that hands out one permit more than its capacity
CanReserveOneMore ==
  /\ com_task = "running"
  /\ Len(gcoderx) + Cardinality({q \in Producers : pc[q] # "idle"}) <= QueueCap

\* mpsc::Sender::reserve / try_reserve succeed: the receiver is alive and
\* a permit is free
CanReserve ==
  /\ com_task = "running"
  /\ Len(gcoderx) + Cardinality({q \in Producers : pc[q] # "idle"}) < QueueCap

\* Socket::send / Socket::try_send, up to send_slot.send: the slot is
\* reserved, the line serialized and the oneshot created
Send(p, t, max) ==
  /\ pc[p] = "idle"
  /\ outcome' = None
  /\ UNCHANGED inbound
  /\ sends < max
  /\ CanReserve
  /\ LET r == SequencedSerialize(sequence, t)
     IN  /\ sequence' = r.next
         /\ item' = [item EXCEPT ![p] =
                       SendContent(r.bytes, Some(r.sequence), Some(Len(oneshot) + 1))]
  /\ oneshot' = Append(oneshot, NewOneshot)
  /\ pc' = [pc EXCEPT ![p] = "ready"]
  /\ sends' = sends + 1
  /\ UNCHANGED << printer, com_task, gcoderx, pending_responses, read_disabled,
                  transport, responses >>
  /\ UNCHANGED << buf, wire, encoderVars, commandVars >>

\* Socket::send_unsequenced / try_send_unsequenced: the line is serialized,
\* the oneshot created, the slot reserved and the SendContent sent
SendUnsequenced(p, t, max) ==
  /\ pc[p] = "idle"
  /\ Polled(p)
  /\ outcome' = None
  /\ UNCHANGED inbound
  /\ sends < max
  /\ CanReserve
  /\ gcoderx' = Append(gcoderx,
                       SendContent(serialize_unsequenced(sequence, t).bytes, None,
                                   Some(Len(oneshot) + 1)))
  /\ sequence' = serialize_unsequenced(sequence, t).SEQUENCE
  /\ oneshot' = Append(oneshot, NewOneshot)
  /\ sends' = sends + 1
  /\ task' = Awaits(p, Len(oneshot) + 1)
  /\ UNCHANGED << printer, com_task, pending_responses, read_disabled,
                  transport, responses, pc, item >>
  /\ UNCHANGED << buf, wire, encoderVars, macros, macro_call, tasks, applied >>

\* a send_raw that attaches a responder, as send_unsequenced does
SendRawAwaited(p, bytes, max) ==
  /\ pc[p] = "idle"
  /\ outcome' = None
  /\ UNCHANGED inbound
  /\ sends < max
  /\ CanReserve
  /\ gcoderx' = Append(gcoderx,
                       SendContent(bytes, None, Some(Len(oneshot) + 1)))
  /\ oneshot' = Append(oneshot, NewOneshot)
  /\ sends' = sends + 1
  /\ UNCHANGED << printer, com_task, pending_responses, read_disabled,
                  transport, responses, sequence, pc, item >>
  /\ UNCHANGED << buf, wire, encoderVars, commandVars >>

\* Socket::send_raw / try_send_raw: the slot is reserved and the bytes sent
\* with no sequence and no responder
SendRaw(p, bytes, max) ==
  /\ pc[p] = "idle"
  /\ outcome' = None
  /\ UNCHANGED inbound
  /\ sends < max
  /\ CanReserve
  /\ gcoderx' = Append(gcoderx, SendContent(bytes, None, None))
  /\ sends' = sends + 1
  /\ UNCHANGED << printer, com_task, pending_responses, read_disabled,
                  transport, responses, sequence, oneshot, pc, item >>
  /\ UNCHANGED << buf, wire, encoderVars, commandVars >>

\* Socket::send / Socket::try_send, send_slot.send (mpsc::Permit::send): the
\* value is pushed on the channel, whether or not the receiver still exists
Enqueue(p) ==
  /\ pc[p] = "ready"
  /\ UNCHANGED << inbound, outcome >>
  /\ gcoderx' = Append(gcoderx, item[p])
  /\ pc' = [pc EXCEPT ![p] = "idle"]
  /\ item' = [item EXCEPT ![p] = NoItem]
  /\ UNCHANGED << printer, com_task, pending_responses, read_disabled,
                  transport, responses, sequence, oneshot, sends >>
  /\ UNCHANGED << buf, wire, encoderVars, commandVars >>

(* -------------------------- printer_com_task ------------------------- *)

\* a return that drops the request at hand and leaves the table alive
ReturnKeepingTable(also, written) ==
  /\ com_task' = "exited"
  /\ oneshot' = DropSenders(oneshot, also)
  /\ transport' = written
  /\ UNCHANGED << printer, pending_responses, gcoderx, responses, sequence, pc,
                  item, sends >>
  /\ UNCHANGED << encoderVars, commandVars >>

\* `return`: pending_responses and the receiver gcoderx are dropped, and
\* with them every responder they hold
Return(also, written) ==
  /\ com_task' = "exited"
  /\ oneshot' = DropSenders(oneshot,
                            TableResponders(pending_responses)
                              \cup Responders(Range(gcoderx)) \cup also)
  /\ pending_responses' = EmptyMap
  /\ gcoderx' = <<>>
  /\ transport' = written
  /\ UNCHANGED << printer, responses, sequence, pc, item, sends >>
  /\ UNCHANGED << encoderVars, commandVars >>

\* a write that hands the transport the content in two parts
WrittenInHalves(content, io) ==
  IF io = "err"
    THEN transport
    ELSE Append(Append(transport, SubSeq(content, 1, Len(content) \div 2)),
                SubSeq(content, Len(content) \div 2 + 1, Len(content)))

\* the outcomes of write_all followed by flush: both succeed, or one fails
\* (and the bytes are not known to have reached the device)
IoOutcomes == {"ok", "err"}

\* the stream after write_all(content) and flush() ended as io
Written(content, io) ==
  IF io = "err" THEN transport ELSE Append(transport, content)

\* a precondition that lets a fifth request in
RecvEnabledOffByOne == Cardinality(DOMAIN pending_responses) <= PendingCap

\* the select! precondition of the recv branch
RecvEnabled == Cardinality(DOMAIN pending_responses) < PendingCap

\* select! branch 1: a SendContent is received and written.  The branch
\* completing drops the read_line future of branch 2 with the bytes it has
\* taken so far (tokio's read_line is not cancellation safe)
ComRecv(io) ==
  /\ com_task = "running"
  /\ buf' = <<>>
  /\ UNCHANGED wire
  /\ UNCHANGED << inbound, outcome >>
  /\ RecvEnabled
  /\ gcoderx # <<>>
  /\ LET m == Head(gcoderx)
         displaced == IF m.sequence \in DOMAIN pending_responses
                        THEN {pending_responses[m.sequence].responder}
                        ELSE {}
     IN  IF io # "ok"
           THEN /\ Return(Responders({m}), Written(m.content, io))
                /\ UNCHANGED read_disabled
           ELSE /\ transport' = Written(m.content, io)
                /\ gcoderx' = Tail(gcoderx)
                /\ IF m.responder # None
                     THEN /\ pending_responses' =
                               Insert(pending_responses, m.sequence,
                                      [responder |-> m.responder[1],
                                       content |-> m.content])
                          /\ oneshot' = DropSenders(oneshot, displaced)
                     ELSE UNCHANGED << pending_responses, oneshot >>
                /\ read_disabled' = FALSE
                /\ UNCHANGED << printer, com_task, responses, sequence, pc,
                                item, sends >>
                /\ UNCHANGED << encoderVars, commandVars >>

\* a send placed inside `if let Ok(ok_res)`: only acknowledgements go out
BroadcastParsed(line) ==
  responses' = IF Parsed[line].ok THEN Append(responses, line) ELSE responses

\* responsetx.send(line): some Socket always holds a receiver
Broadcast(line) == responses' = Append(responses, line)

\* the body of select! branch 2: the line read_line returned is parsed,
\* acted on and published
Received(line, r, io) ==
     LET isOk == r.ok /\ r.val.tag = "Ok"
         isResend == r.ok /\ r.val.tag = "Resend"
         found == r.ok /\ r.val.seq \in DOMAIN pending_responses
     IN  IF isResend /\ found /\ io # "ok"
           THEN /\ Return({}, Written(pending_responses[r.val.seq].content, io))
                /\ UNCHANGED read_disabled
           ELSE /\ IF isOk /\ found
                     THEN /\ pending_responses' = Remove(pending_responses, r.val.seq)
                          /\ oneshot' = SendOneshot(oneshot,
                                                    pending_responses[r.val.seq].responder)
                     ELSE UNCHANGED << pending_responses, oneshot >>
                /\ IF isResend /\ found
                     THEN transport' = Written(pending_responses[r.val.seq].content, io)
                     ELSE UNCHANGED transport
                /\ Broadcast(line)
                /\ read_disabled' = FALSE
                /\ UNCHANGED << printer, com_task, gcoderx, sequence, pc, item,
                                sends >>
                /\ UNCHANGED << encoderVars, commandVars >>

\* select! branch 2: read_line returned a line of at least one byte, read
\* off the stream in one piece
ComRead(line, io, max) ==
  /\ com_task = "running"
  /\ buf = <<>>
  /\ wire = <<>>
  /\ UNCHANGED << buf, wire >>
  /\ ~read_disabled
  /\ Len(inbound) < max
  /\ inbound' = Append(inbound, line)
  /\ UNCHANGED outcome
  /\ Received(line, Parsed[line], io)

\* select! branch 2 polled with only the first n bytes of the device's line
\* on the stream: read_line takes them and stays pending
ReadPartial(line, n, max) ==
  /\ com_task = "running"
  /\ ~read_disabled
  /\ buf = <<>>
  /\ wire = <<>>
  /\ Len(inbound) < max
  /\ n \in 1..(Len(line) - 1)
  /\ inbound' = Append(inbound, line)
  /\ buf' = SubSeq(line, 1, n)
  /\ wire' = SubSeq(line, n + 1, Len(line))
  /\ UNCHANGED << printer, com_task, gcoderx, pending_responses, read_disabled,
                  transport, responses, outcome, sequence, oneshot, pc, item,
                  sends >>
  /\ UNCHANGED << encoderVars, commandVars >>

\* select! branch 2: the rest of the line arrived, and read_line returns what
\* its future holds followed by the rest
ReadRest(io) ==
  /\ com_task = "running"
  /\ ~read_disabled
  /\ wire # <<>>
  /\ buf' = <<>>
  /\ wire' = <<>>
  /\ UNCHANGED << inbound, outcome >>
  /\ Received(buf \o wire,
              IF buf \o wire \in DOMAIN Parsed THEN Parsed[buf \o wire]
                                              ELSE parse(buf \o wire),
              io)

\* select! branch 2: read_line returned Ok(0) or an error, which does not
\* match Ok(1..): the branch is disabled; `else => return` runs only when
\* the recv branch is disabled too
ComReadEof ==
  /\ com_task = "running"
  /\ UNCHANGED << buf, wire >>
  /\ UNCHANGED << inbound, outcome >>
  /\ ~read_disabled
  /\ read_disabled' = TRUE
  /\ IF RecvEnabled
       THEN /\ UNCHANGED << printer, com_task, gcoderx, pending_responses,
                            transport, responses, sequence, oneshot, pc, item,
                            sends >>
            /\ UNCHANGED << encoderVars, commandVars >>
       ELSE Return({}, transport)

\* Printer::disconnect: mem::take drops the Connected value, whose Drop
\* calls com_task.abort(); the runtime then drops the loop's future at the
\* select! it is suspended in.  The two are one step of the model.
Disconnect ==
  /\ printer = "Connected"
  /\ buf' = <<>>
  /\ UNCHANGED wire
  /\ UNCHANGED << inbound, outcome >>
  /\ printer' = "Disconnected"
  /\ IF com_task = "running"
       THEN /\ com_task' = "exited"
            /\ oneshot' = DropSenders(oneshot,
                                      TableResponders(pending_responses)
                                        \cup Responders(Range(gcoderx)))
            /\ pending_responses' = EmptyMap
            /\ gcoderx' = <<>>
       ELSE UNCHANGED << com_task, oneshot, pending_responses, gcoderx >>
  /\ UNCHANGED << read_disabled, transport, responses, sequence, pc, item,
                  sends >>
  /\ UNCHANGED << encoderVars, commandVars >>

Next ==
  \/ Connect
  \/ Disconnect
  \/ \E p \in Producers, t \in Gcodes : Send(p, t, MaxSends)
  \/ \E p \in Producers, t \in Gcodes : SendUnsequenced(p, t, MaxSends)
  \/ \E p \in Producers, bytes \in RawBytes : SendRaw(p, bytes, MaxSends)
  \/ \E p \in Producers : Enqueue(p)
  \/ \E io \in IoOutcomes : ComRecv(io)
  \/ \E line \in InboundLines, io \in IoOutcomes : ComRead(line, io, MaxLines)
  \/ ComReadEof

Spec == Init /\ [][Next]_vars

(***************************************************************************)
(* A burst: enough awaited requests to fill the pending-request table,     *)
(* against a device that acknowledges only line 1, with the session kept   *)
(* connected.                                                              *)
(***************************************************************************)
BurstLines == {OkN(1)}

BurstNext ==
  \/ Connect
  \/ \E p \in Producers, t \in Gcodes : Send(p, t, MaxBurst)
  \/ \E p \in Producers, t \in Gcodes : SendUnsequenced(p, t, MaxBurst)
  \/ \E p \in Producers : Enqueue(p)
  \/ \E io \in IoOutcomes : ComRecv(io)
  \/ \E line \in BurstLines, io \in IoOutcomes : ComRead(line, io, MaxBurstLines)
  \/ ComReadEof

SpecBurst == Init /\ [][BurstNext]_vars

(***************************************************************************)
(* A replay: a device that names no line, answering `Resend:`, `ok` or a   *)
(* temperature report while sequenced and unsequenced requests are         *)
(* pending.                                                                *)
(***************************************************************************)
ReplayLines == {ResendBare, OkLine, TemperatureLine}

ReplayNext ==
  \/ Connect
  \/ \E p \in Producers, t \in Gcodes : Send(p, t, MaxReplay)
  \/ \E p \in Producers, t \in Gcodes : SendUnsequenced(p, t, MaxReplay)
  \/ \E p \in Producers : Enqueue(p)
  \/ \E io \in IoOutcomes : ComRecv(io)
  \/ \E line \in ReplayLines, io \in IoOutcomes : ComRead(line, io, MaxReplayLines)

SpecReplay == Init /\ [][ReplayNext]_vars

\* a session whose device lines may reach the stream in two parts
PartialLines == {OkLine, OkN(1), TemperatureLine}

PartialNext ==
  \/ Connect
  \/ \E p \in Producers, t \in Gcodes : Send(p, t, MaxPartialSends)
  \/ \E p \in Producers, t \in Gcodes : SendUnsequenced(p, t, MaxPartialSends)
  \/ \E p \in Producers : Enqueue(p)
  \/ ComRecv("ok")
  \/ \E line \in PartialLines : ComRead(line, "ok", MaxPartialLines)
  \/ \E line \in PartialLines, n \in 1..5 :
       ReadPartial(line, n, MaxPartialLines)
  \/ ReadRest("ok")

SpecPartial == Init /\ [][PartialNext]_vars

\* the device has yet to acknowledge the pending request numbered k: it
\* acknowledges each request once
Owed(k) == Some(k) \in DOMAIN pending_responses /\ OkN(k) \notin Range(inbound)

\* the device acknowledges the pending requests in their order with
\* `ok N<k>`, and the line reaches the loop in one piece or in two
Acknowledge ==
  \E k \in 1..(MaxProgressSends + 1) :
    /\ Owed(k)
    /\ \A j \in 1..(k - 1) : ~Owed(j)
    /\ \/ ComRead(OkN(k), "ok", MaxProgressSends)
       \/ /\ k <= MaxSplitAcks
          /\ ReadPartial(OkN(k), 2, MaxProgressSends)

\* a session that stays alive, with a device that acknowledges
ProgressNext ==
  \/ Connect
  \/ \E t \in Gcodes : Send("p1", t, MaxProgressSends)
  \/ Enqueue("p1")
  \/ ComRecv("ok")
  \/ Acknowledge
  \/ ReadRest("ok")

SpecProgress == Init /\ [][ProgressNext]_vars

\* the runtime polls the loop and the producers that hold a slot, and the
\* device acknowledges what is pending
SpecProgressFair ==
  /\ SpecProgress
  /\ WF_vars(ComRecv("ok"))
  /\ WF_vars(ReadRest("ok"))
  /\ WF_vars(Acknowledge)
  /\ WF_vars(Enqueue("p1"))

\* a session against a device whose lines are acknowledgement forms, alone
\* on the line or followed by other content
WholeLineNext ==
  \/ Connect
  \/ \E p \in Producers, t \in Gcodes : Send(p, t, MaxWholeLineSends)
  \/ \E p \in Producers, t \in Gcodes :
       SendUnsequenced(p, t, MaxWholeLineSends)
  \/ \E p \in Producers : Enqueue(p)
  \/ ComRecv("ok")
  \/ \E line \in WholeLineLines : ComRead(line, "ok", MaxWholeLineLines)

SpecWholeLine == Init /\ [][WholeLineNext]_vars

\* a session against a device that sends every line of the vocabulary
VocabularyNext ==
  \/ Connect
  \/ \E p \in Producers, t \in Gcodes : Send(p, t, MaxVocabularySends)
  \/ \E p \in Producers, t \in Gcodes :
       SendUnsequenced(p, t, MaxVocabularySends)
  \/ \E p \in Producers : Enqueue(p)
  \/ ComRecv("ok")
  \/ \E line \in VocabularyLines : ComRead(line, "ok", MaxVocabularyLines)

SpecVocabulary == Init /\ [][VocabularyNext]_vars

\* raw requests next to sequenced and unsequenced ones, with the device
\* answering `ok`, `Resend:` and `Resend: 1`
RawLines == {OkLine, ResendBare, ResendLine(1)}

RawNext ==
  \/ Connect
  \/ \E p \in Producers, bytes \in RawBytes : SendRaw(p, bytes, MaxRawSends)
  \/ \E p \in Producers, t \in Gcodes : SendUnsequenced(p, t, MaxRawSends)
  \/ \E p \in Producers, t \in Gcodes : Send(p, t, MaxRawSends)
  \/ \E p \in Producers : Enqueue(p)
  \/ \E io \in IoOutcomes : ComRecv(io)
  \/ \E line \in RawLines, io \in IoOutcomes : ComRead(line, io, MaxRawLines)

SpecRaw == Init /\ [][RawNext]_vars

(***************************************************************************)
(* The Printer's public methods, each of which goes through                *)
(* self.socket() or self.socket_mut(), and the calls of a Socket that      *)
(* return an error.  "p1" stands for the Printer's own socket.             *)
(***************************************************************************)
Error(op, error) == [op |-> op, error |-> error]

\* everything a call that returns an error leaves as it was
Untouched ==
  /\ UNCHANGED << printer, com_task, gcoderx, pending_responses, read_disabled,
                  transport, responses, inbound, sequence, oneshot, pc, item,
                  sends >>
  /\ UNCHANGED << buf, wire, encoderVars, commandVars >>

\* a socket() that hands out a socket whatever the variant
socket_unchecked == None

\* Printer::socket / Printer::socket_mut: the Err it returns, if any
socket == IF printer = "Disconnected" THEN Some("Disconnected") ELSE None

TryOps == {"try_send", "try_send_unsequenced", "try_send_raw"}
AwaitOps == {"send", "send_unsequenced", "send_raw"}
ReadOps == {"read_next_line", "try_read_next_line"}
PublicOps == TryOps \cup AwaitOps \cup ReadOps \cup {"subscribe_lines", "socket"}

\* a try_send that serializes the line before it asks for the slot
TrySerializeThenReserveFails(p, op) ==
  /\ op \in TryOps
  /\ pc[p] = "idle"
  /\ com_task # "none"
  /\ ~CanReserve
  /\ outcome' = Some(Error(op, "Sender"))
  /\ sequence' = IF op = "try_send"
                   THEN SequencedSerialize(sequence, M1234).next
                   ELSE sequence
  /\ UNCHANGED << printer, com_task, gcoderx, pending_responses, read_disabled,
                  transport, responses, inbound, oneshot, pc, item, sends >>
  /\ UNCHANGED << buf, wire, encoderVars, commandVars >>

\* sender.try_reserve()? fails: no permit is free or the receiver is gone.
\* try_send fails before it serializes; try_send_unsequenced drops the bytes
\* and the oneshot it made
TryReserveFails(p, op) ==
  /\ op \in TryOps
  /\ pc[p] = "idle"
  /\ com_task # "none"
  /\ ~CanReserve
  /\ outcome' = Some(Error(op, "Sender"))
  /\ Untouched

\* sender.reserve().await? fails: the receiver is gone
ReserveFails(p, op) ==
  /\ op \in AwaitOps
  /\ pc[p] = "idle"
  /\ com_task = "exited"
  /\ outcome' = Some(Error(op, "SendReserve"))
  /\ Untouched

\* a Printer method whose self.socket()? returned the error
Refused(op) ==
  /\ socket # None
  /\ outcome' = Some(Error(op, socket[1]))
  /\ Untouched

\* a Printer method on a Connected printer: the Socket's method
Delegated(op, max) ==
  /\ socket = None
  /\ \/ /\ op \in {"send", "try_send"}
        /\ \E t \in Gcodes : Send("p1", t, max)
     \/ /\ op \in {"send_unsequenced", "try_send_unsequenced"}
        /\ \E t \in Gcodes : SendUnsequenced("p1", t, max)
     \/ /\ op \in {"send_raw", "try_send_raw"}
        /\ \E bytes \in RawBytes : SendRaw("p1", bytes, max)
     \/ TryReserveFails("p1", op)
     \/ ReserveFails("p1", op)
     \/ /\ op \in {"subscribe_lines", "socket"}
        /\ outcome' = None
        /\ Untouched
     \/ /\ op \in ReadOps
        \* the receiver's cursor is outside the model: a line, or the
        \* broadcast's error
        /\ outcome' \in {None,
                         Some(Error(op, IF op = "read_next_line"
                                          THEN "ReadLine" ELSE "TryReadLine"))}
        /\ Untouched

\* Printer::send, try_send, send_unsequenced, try_send_unsequenced, send_raw,
\* try_send_raw, read_next_line, try_read_next_line, subscribe_lines, socket
PrinterCall(op, max) == Refused(op) \/ Delegated(op, max)

\* Printer::connect on a printer that was disconnected after a session, the
\* sockets of that session being gone: a new stream, new channels, a new
\* loop and a new serializer
Reconnect ==
  /\ printer = "Disconnected"
  /\ com_task = "exited"
  /\ \A p \in Producers : pc[p] = "idle"
  /\ printer' = "Connected"
  /\ com_task' = "running"
  /\ sequence' = SequencedDefault
  /\ oneshot' = DropSenders(oneshot, Responders(Range(gcoderx)))
  /\ gcoderx' = <<>>
  /\ read_disabled' = FALSE
  /\ transport' = <<>>
  /\ responses' = <<>>
  /\ inbound' = <<>>
  /\ UNCHANGED << pending_responses, outcome, pc, item, sends >>
  /\ UNCHANGED << buf, wire, encoderVars, commandVars >>

PrinterNext ==
  \/ Connect
  \/ Reconnect
  \/ Disconnect
  \/ \E op \in PublicOps : PrinterCall(op, MaxPrinterSends)
  \/ Enqueue("p1")
  \/ \E io \in IoOutcomes : ComRecv(io)

SpecPrinter == Init /\ [][PrinterNext]_vars

(***************************************************************************)
(* Backpressure: producers that offer more requests than the queue takes,  *)
(* to a loop that may be slow to take them.                                *)
(***************************************************************************)
BackpressureNext ==
  \/ Connect
  \/ \E p \in Producers, t \in Gcodes : Send(p, t, MaxAwaited)
  \/ \E p \in Producers, t \in Gcodes : SendUnsequenced(p, t, MaxAwaited)
  \/ \E p \in Producers, bytes \in RawBytes : SendRaw(p, bytes, MaxOffered)
  \/ \E p \in Producers : Enqueue(p)
  \/ \E p \in Producers, op \in TryOps : TryReserveFails(p, op)
  \/ \E p \in Producers, op \in AwaitOps : ReserveFails(p, op)
  \/ \E io \in IoOutcomes : ComRecv(io)

SpecBackpressure == Init /\ [][BackpressureNext]_vars

(***************************************************************************)
(* The encoder on its own: threads that call Serializer::serialize and     *)
(* Serializer::serialize_unsequenced on the static SEQUENCE.               *)
(***************************************************************************)
Calls == Len(lines_out) + Cardinality({t \in Threads : held[t] # None})

\* Serializer::start_line: the thread takes its sequence number
StartLine(t) ==
  /\ held[t] = None
  /\ Calls < MaxCalls
  /\ held' = [held EXCEPT ![t] = Some(fetch_add(SEQUENCE).prev)]
  /\ SEQUENCE' = fetch_add(SEQUENCE).next
  /\ UNCHANGED lines_out
  /\ UNCHANGED << sessionVars, commandVars >>

\* Serializer::serialize: the line is written and returned
FinishLine(t, v) ==
  /\ held[t] # None
  /\ lines_out' = Append(lines_out,
                         [sequence |-> held[t], value |-> v,
                          bytes |-> serialize(held[t][1], v)])
  /\ held' = [held EXCEPT ![t] = None]
  /\ UNCHANGED SEQUENCE
  /\ UNCHANGED << sessionVars, commandVars >>

\* Serializer::serialize_unsequenced
SerializeUnsequenced(t, v) ==
  /\ held[t] = None
  /\ Calls < MaxCalls
  /\ lines_out' = Append(lines_out,
                         [sequence |-> None, value |-> v,
                          bytes |-> serialize_unsequenced(SEQUENCE, v).bytes])
  /\ SEQUENCE' = serialize_unsequenced(SEQUENCE, v).SEQUENCE
  /\ UNCHANGED held
  /\ UNCHANGED << sessionVars, commandVars >>

EncoderNext ==
  \/ \E t \in Threads : StartLine(t)
  \/ \E t \in Threads, v \in Values : FinishLine(t, v)
  \/ \E t \in Threads, v \in Values : SerializeUnsequenced(t, v)

SpecEncoder == Init /\ [][EncoderNext]_vars

(***************************************************************************)
(* print3rs-commands: the macro table (commands/macros.rs) and the two     *)
(* arms of Commander::dispatch that change it.                             *)
(***************************************************************************)
\* str::to_ascii_uppercase
to_ascii_uppercase(str) == [i \in 1..Len(str) |-> ToAsciiUpper(str[i])]

\* Macros::get: the key is the name in upper case
get(table, name) ==
  LET key == to_ascii_uppercase(name)
  IN  IF key \in DOMAIN table THEN Some(table[key]) ELSE None

RECURSIVE expand_recursive(_, _, _, _)
RECURSIVE expand_each(_, _, _, _)

\* Macros::expand_recursive: `expanded` as the call leaves it and the Result.
\* already_expanded.contains(&code) compares the strings as they are
expand_recursive(table, expanded, code, already_expanded) ==
  IF code \in Range(already_expanded)
    THEN [expanded |-> expanded, result |-> "InfiniteRecursion"]
    ELSE LET expansion == get(table, code)
         IN  IF expansion # None
               THEN expand_each(table, expanded, expansion[1],
                                Append(already_expanded, code))
               ELSE [expanded |-> Append(expanded, to_ascii_uppercase(code)),
                     result |-> "Ok"]

\* the for loops over expand_recursive(..)?: the first Err ends the loop
expand_each(table, expanded, codes, already_expanded) ==
  IF codes = <<>>
    THEN [expanded |-> expanded, result |-> "Ok"]
    ELSE LET first == expand_recursive(table, expanded, Head(codes),
                                       already_expanded)
         IN  IF first.result # "Ok"
               THEN first
               ELSE expand_each(table, first.expanded, Tail(codes),
                                already_expanded)

\* an expansion that only changes the case of the steps
uppercase_only(table, codes) ==
  [expanded |-> [i \in 1..Len(codes) |-> to_ascii_uppercase(codes[i])],
   result |-> "Ok"]

\* Macros::expand_for_insertion: every step starts a path of its own
expand_for_insertion(table, codes) == expand_each(table, <<>>, codes, <<>>)

\* an add that stores the steps it could not expand
add_unchecked(table, name, steps) ==
  [macros |-> Insert(table, to_ascii_uppercase(name),
                     uppercase_only(table, steps).expanded),
   result |-> expand_for_insertion(table, steps).result]

\* Macros::add: the table after the call and the Result
add(table, name, steps) ==
  LET commands == expand_for_insertion(table, steps)
  IN  IF commands.result = "Ok"
        THEN [macros |-> Insert(table, to_ascii_uppercase(name),
                                commands.expanded),
              result |-> "Ok"]
        ELSE [macros |-> table, result |-> commands.result]

\* Macros::remove
remove(table, name) == Remove(table, to_ascii_uppercase(name))

\* an expansion that looks nothing up
uppercase_each(table, codes) ==
  [i \in 1..Len(codes) |-> to_ascii_uppercase(codes[i])]

RECURSIVE expand(_, _)
\* Macros::expand: one lookup for every code
expand(table, codes) ==
  IF codes = <<>> THEN <<>>
  ELSE (IF get(table, Head(codes)) # None
          THEN get(table, Head(codes))[1]
          ELSE << to_ascii_uppercase(Head(codes)) >>)
       \o expand(table, Tail(codes))

\* the names and steps the commands carry: two macro names, one of them in
\* both cases, and a gcode
MacroNames == { <<"o", "n", "e">>, <<"t", "e", "n">> }
MacroSteps ==
  LET tokens == MacroNames \cup { <<"O", "N", "E">>, <<"g", "0">> }
  IN  { <<a>> : a \in tokens } \cup (tokens \X tokens)

\* Commander::dispatch, Macro(name, commands): an Err of add is reported to
\* the responder and dispatch returns Ok
Macro(name, commands, max) ==
  /\ macro_call.n < max
  /\ LET added == add(macros, name, commands)
     IN  /\ macros' = added.macros
         /\ macro_call' = [n |-> macro_call.n + 1, op |-> "add",
                           name |-> name, steps |-> commands,
                           result |-> added.result]
  /\ UNCHANGED << sessionVars, encoderVars, tasks, task, applied >>

\* Commander::dispatch, DeleteMacro(name)
DeleteMacro(name, max) ==
  /\ macro_call.n < max
  /\ macros' = remove(macros, name)
  /\ macro_call' = [n |-> macro_call.n + 1, op |-> "remove", name |-> name,
                    steps |-> <<>>, result |-> "Ok"]
  /\ UNCHANGED << sessionVars, encoderVars, tasks, task, applied >>

MacrosNext ==
  \/ \E name \in MacroNames, commands \in MacroSteps :
       Macro(name, commands, MaxMacroCalls)
  \/ \E name \in MacroNames : DeleteMacro(name, MaxMacroCalls)

SpecMacros == Init /\ [][MacrosNext]_vars

\* a cycle check that finds nothing
contains_nothing(already_expanded, code) == FALSE

\* Vec::contains, as expand_recursive calls it on already_expanded: the
\* strings are compared as they are
contains(already_expanded, code) == code \in Range(already_expanded)

\* a call of expand_recursive that is still to be made
Call(code, already_expanded) ==
  [code |-> code, already_expanded |-> already_expanded]

\* Macros::add entered, call by call: expand_for_insertion is to call
\* expand_recursive(code, None) for every step, in order
AddBegins(name, steps) ==
  /\ applied.op = "none"
  /\ applied' = [op |-> "add",
                 input |-> [table |-> macros, name |-> name, steps |-> steps],
                 output |-> [stack |-> [i \in 1..Len(steps) |->
                                          Call(steps[i], <<>>)],
                             expanded |-> <<>>,
                             result |-> "running"]]
  /\ UNCHANGED << sessionVars, encoderVars, macros, macro_call, tasks, task >>

\* one call of expand_recursive: the cycle check returns the error through
\* every `?`; a name pushes its code and calls for each step of its
\* expansion, in order; anything else is pushed in upper case
ExpandRecursive ==
  /\ applied.op = "add"
  /\ applied.output.result = "running"
  /\ applied.output.stack # <<>>
  /\ LET call == Head(applied.output.stack)
         expansion == get(macros, call.code)
         already_expanded == Append(call.already_expanded, call.code)
     IN  applied' =
           [applied EXCEPT !.output =
              IF contains(call.already_expanded, call.code)
                THEN [@ EXCEPT !.stack = <<>>, !.result = "InfiniteRecursion"]
                ELSE IF expansion # None
                  THEN [@ EXCEPT !.stack =
                          [i \in 1..Len(expansion[1]) |->
                             Call(expansion[1][i], already_expanded)]
                            \o Tail(@)]
                  ELSE [@ EXCEPT !.stack = Tail(@),
                                 !.expanded =
                                   Append(@, to_ascii_uppercase(call.code))]]
  /\ UNCHANGED << sessionVars, encoderVars, macros, macro_call, tasks, task >>

\* Macros::add after expand_for_insertion returned Ok: the insert
AddInserts ==
  /\ applied.op = "add"
  /\ applied.output.result = "running"
  /\ applied.output.stack = <<>>
  /\ applied' = [applied EXCEPT !.output.result = "Ok"]
  /\ macros' = Insert(macros, to_ascii_uppercase(applied.input.name),
                      applied.output.expanded)
  /\ UNCHANGED << sessionVars, encoderVars, macro_call, tasks, task >>

\* step lists that name a macro, in either case, alone or next to a code
InsertionSteps ==
  { << <<"o", "n", "e">> >>, << <<"t", "e", "n">> >>,
    << <<"O", "N", "E">>, <<"g", "0">> >>,
    << <<"t", "e", "n">>, <<"o", "n", "e">> >> }

\* a table built by Macro commands, then one insertion followed call by call
InsertionNext ==
  \/ /\ applied.op = "none"
     /\ \E name \in MacroNames, commands \in InsertionSteps :
          Macro(name, commands, MaxInsertionMacros)
  \/ \E name \in MacroNames, steps \in InsertionSteps : AddBegins(name, steps)
  \/ ExpandRecursive
  \/ AddInserts

SpecInsertion == Init /\ [][InsertionNext]_vars

\* dispatch runs the call to its end
SpecInsertionFair ==
  SpecInsertion /\ WF_vars(ExpandRecursive) /\ WF_vars(AddInserts)

\* self.macros.expand(codes), as the Gcodes arm of Commander::dispatch calls
\* it; a run of the model expands one list of codes
Expand(codes) ==
  /\ applied.op = "none"
  /\ applied' = [op |-> "expand", input |-> codes,
                 output |-> expand(macros, codes)]
  /\ UNCHANGED << sessionVars, encoderVars, macros, macro_call, tasks, task >>

ExpandNext ==
  \/ \E name \in MacroNames, commands \in MacroSteps :
       Macro(name, commands, MaxExpandCalls)
  \/ \E codes \in MacroSteps \cup {<<>>} : Expand(codes)

SpecExpand == Init /\ [][ExpandNext]_vars

(***************************************************************************)
(* print3rs-commands/src/commands/log.rs: the parser make_parser builds    *)
(* from the segments of a log pattern.  The lines of the model hold none   *)
(* of the letters e, i, n, so that float's exponent, inf and nan never     *)
(* start.                                                                  *)
(***************************************************************************)
TagSegment(s) == [segment |-> "Tag", s |-> s]
EscapedSegment(c) == [segment |-> "Escaped", s |-> << c >>]
ValueSegment(label) == [segment |-> "Value", s |-> label]

\* a literal: the input starts with the bytes s
literal(s, input) ==
  IF Len(input) >= Len(s) /\ SubSeq(input, 1, Len(s)) = s
    THEN Matched(None, SubSeq(input, Len(s) + 1, Len(input)))
    ELSE Backtrack(input)

RECURSIVE take_until(_, _)
\* take_until(0.., tag): the input from the first place where the whole
\* tag stands; an error when it stands nowhere
take_until(tag, input) ==
  IF literal(tag, input).ok THEN Matched(None, input)
  ELSE IF input = <<>> THEN Backtrack(input)
  ELSE LET r == take_until(tag, Tail(input))
       IN  IF r.ok THEN r ELSE Backtrack(input)

RECURSIVE take_till(_, _)
\* take_till(0.., stop): the input from its first byte in stop
take_till(stop, input) ==
  IF input = <<>> \/ Head(input) \in stop THEN input
  ELSE take_till(stop, Tail(input))

RECURSIVE TrimZeros(_)
TrimZeros(digits) ==
  IF digits # <<>> /\ digits[Len(digits)] = "0"
    THEN TrimZeros(SubSeq(digits, 1, Len(digits) - 1))
    ELSE digits

\* the number the text of a float denotes: mant / 10^scale, in lowest
\* terms of ten
FloatValue(neg, int, frac) ==
  LET kept == TrimZeros(frac)
      abs  == DecValue(int \o kept, 0)[1]
  IN  [mant |-> IF neg THEN -abs ELSE abs, scale |-> Len(kept)]

\* winnow::ascii::float: an optional sign, then digits with an optional
\* `.` and fraction, or `.` and a fraction
float(input) ==
  LET signed == input # <<>> /\ Head(input) \in {"+", "-"}
      neg    == signed /\ Head(input) = "-"
      body   == IF signed THEN Tail(input) ELSE input
      int    == DigitRun(body)
      after  == SubSeq(body, Len(int) + 1, Len(body))
      dot    == after # <<>> /\ Head(after) = "."
      frac   == IF dot THEN DigitRun(Tail(after)) ELSE <<>>
      rest   == IF dot THEN SubSeq(after, Len(frac) + 2, Len(after)) ELSE after
  IN  IF int # <<>> THEN Matched(FloatValue(neg, int, frac), rest)
      ELSE IF dot /\ frac # <<>> THEN Matched(FloatValue(neg, <<>>, frac), rest)
      ELSE Backtrack(input)

\* make_parser, `skips up to pattern start`
skip_to_start(segments, input) ==
  IF segments = <<>> THEN Matched(None, input)
  ELSE IF segments[1].segment = "Tag" THEN take_until(segments[1].s, input)
  ELSE IF segments[1].segment = "Escaped"
    THEN Matched(None, take_till({segments[1].s[1]}, input))
  ELSE Matched(None, take_till(Range(Digits) \cup {".", "-"}, input))

RECURSIVE parse_each(_, _, _)
\* make_parser, `for segment in segments.iter()`: the values pushed, or
\* the error of the first segment that does not parse
parse_each(segments, values, input) ==
  IF segments = <<>> THEN Matched(values, input)
  ELSE IF Head(segments).segment = "Value"
    THEN LET v == float(input)
         IN  IF v.ok
               THEN parse_each(Tail(segments), Append(values, v.val), v.rest)
               ELSE Backtrack(input)
  ELSE LET l == literal(Head(segments).s, input)
       IN  IF l.ok THEN parse_each(Tail(segments), values, l.rest)
           ELSE Backtrack(input)

\* make_parser(segments), the closure applied by parser.parse(input): the
\* skip, the segments, then `rest`, which takes whatever is left
make_parser(segments, input) ==
  LET start == skip_to_start(segments, input)
  IN  IF ~start.ok THEN [ok |-> FALSE, val |-> <<>>]
      ELSE LET r == parse_each(segments, <<>>, start.rest)
           IN  IF r.ok THEN [ok |-> TRUE, val |-> r.val]
               ELSE [ok |-> FALSE, val |-> <<>>]

\* the patterns `T:{t}`, `{a}:{b}` and `{{{v}`
LogPatterns ==
  { << TagSegment(<<"T", ":">>), ValueSegment(<<"t">>) >>,
    << ValueSegment(<<"a">>), TagSegment(<<":">>), ValueSegment(<<"b">>) >>,
    << EscapedSegment("{"), ValueSegment(<<"v">>) >> }

\* the texts of the values a device line holds
LogNumerals == { <<"2", "5">>, <<"-", "4", ".", "0">>, <<".", "5">> }

\* what stands before and after the text the pattern matches
LogPrefixes ==
  { <<>>, <<"x", " ">>, <<"T">>, <<"T", ":", "x", " ">>, <<"-", " ">>,
    <<"{", " ">> }
LogSuffixes == { <<>>, <<" ", "x">> }

RECURSIVE render(_, _)
\* the text a pattern matches with the numerals given for its values
render(segments, numerals) ==
  IF segments = <<>> THEN <<>>
  ELSE IF Head(segments).segment = "Value"
    THEN Head(numerals) \o render(Tail(segments), Tail(numerals))
    ELSE Head(segments).s \o render(Tail(segments), numerals)

\* start_logging, parser.parse(log_line.as_bytes()) on one line
ParseLine(segments, numerals, prefix, suffix) ==
  /\ Len(numerals)
       = Cardinality({i \in DOMAIN segments : segments[i].segment = "Value"})
  /\ applied' =
       [op |-> "parse",
        input |-> [segments |-> segments, numerals |-> numerals,
                   prefix |-> prefix, suffix |-> suffix],
        output |-> make_parser(segments,
                               prefix \o render(segments, numerals) \o suffix)]
  /\ UNCHANGED << sessionVars, encoderVars, macros, macro_call, tasks, task >>

LogNumeralLists ==
  {<< a >> : a \in LogNumerals} \cup {<< a, b >> : a, b \in LogNumerals}

SpecLogParser ==
  Init /\ [][\E segments \in LogPatterns, numerals \in LogNumeralLists,
                prefix \in LogPrefixes, suffix \in LogSuffixes :
                ParseLine(segments, numerals, prefix, suffix)]_vars

(***************************************************************************)
(* print3rs-commands: the task registry (tasks.rs) and the arms of         *)
(* Commander::dispatch that start and stop background tasks.  A task is    *)
(* polled between two of its awaits in one step; dispatch has no await, so *)
(* an abort finds every task suspended at one.                             *)
(***************************************************************************)
TaskNames == {"fan", "temps"}

\* a drop that leaves the task running
abort_nothing(tk, ps) == tk

\* Drop for BackgroundTask, abort_handle.abort(): the runtime drops the
\* future of a task that has not ended, which is then polled no more
abort(tk, ps) ==
  [p \in DOMAIN tk |->
     IF p \in ps /\ tk[p].state = "running"
       THEN [tk[p] EXCEPT !.state = "aborted"]
       ELSE tk[p]]

\* an insert that leaves the task the name held before running
SpawnKeepingOld(name, p, description, codes) ==
  /\ task[p].state = "none"
  /\ tasks' = Insert(tasks, name, p)
  /\ task' = [task EXCEPT ![p] = [description |-> description,
                                  state |-> "running", waiting |-> None,
                                  at |-> "create", cursor |-> Len(responses),
                                  acts |-> 0, codes |-> codes]]
  /\ outcome' = None
  /\ UNCHANGED << printer, com_task, gcoderx, pending_responses, read_disabled,
                  transport, responses, inbound, sequence, oneshot, pc, item,
                  sends >>
  /\ UNCHANGED << buf, wire, encoderVars, macros, macro_call, applied >>

\* tokio::spawn and self.tasks.insert(name, task): the BackgroundTask the
\* name held before is dropped
Spawn(name, p, description, codes) ==
  /\ task[p].state = "none"
  /\ tasks' = Insert(tasks, name, p)
  /\ task' = [abort(task, IF name \in DOMAIN tasks THEN {tasks[name]} ELSE {})
                EXCEPT ![p] = [description |-> description,
                               state |-> "running", waiting |-> None,
                               at |-> "create", cursor |-> Len(responses),
                               acts |-> 0, codes |-> codes]]
  /\ outcome' = None
  /\ UNCHANGED << printer, com_task, gcoderx, pending_responses, read_disabled,
                  transport, responses, inbound, sequence, oneshot, pc, item,
                  sends >>
  /\ UNCHANGED << buf, wire, encoderVars, macros, macro_call, applied >>

\* a Repeat arm that starts and registers the task without asking for the
\* socket first
RepeatUnchecked(name, p) == Spawn(name, p, "repeat", <<>>)

\* Commander::dispatch, Repeat(name, gcodes)
Repeat(name, p) ==
  \/ Refused("socket")
  \/ socket = None /\ Spawn(name, p, "repeat", <<>>)

\* Commander::dispatch, Log(name, pattern)
Log(name, p) ==
  \/ Refused("subscribe_lines")
  \/ socket = None /\ Spawn(name, p, "log", <<>>)

\* Commander::dispatch, Stop(name): the removed BackgroundTask is dropped
Stop(name) ==
  /\ tasks' = Remove(tasks, name)
  /\ task' = abort(task, IF name \in DOMAIN tasks THEN {tasks[name]} ELSE {})
  /\ UNCHANGED << sessionVars, encoderVars, macros, macro_call, applied >>

\* a disconnect that leaves the registry as it is
DisconnectOnly == Disconnect

\* Commander::dispatch, Disconnect: self.tasks.clear() drops every
\* BackgroundTask, and Printer::disconnect drops a Connected value, which
\* aborts the loop of the session
CommandDisconnect ==
  /\ tasks' = EmptyMap
  /\ task' = abort(task, Range(tasks))
  /\ printer' = "Disconnected"
  /\ IF printer = "Connected" /\ com_task = "running"
       THEN /\ com_task' = "exited"
            /\ oneshot' = DropSenders(oneshot,
                                      TableResponders(pending_responses)
                                        \cup Responders(Range(gcoderx)))
            /\ pending_responses' = EmptyMap
            /\ gcoderx' = <<>>
       ELSE UNCHANGED << com_task, oneshot, pending_responses, gcoderx >>
  /\ UNCHANGED << read_disabled, transport, responses, inbound, outcome,
                  sequence, pc, item, sends >>
  /\ UNCHANGED << buf, wire, encoderVars, macros, macro_call, applied >>

\* Commander::dispatch, Connect(Serial or Tcp): self.tasks.clear(), then the
\* port is opened, and if that succeeds Printer::connect replaces the
\* printer by Printer::new(port): the old value is dropped, and the new one
\* has a new stream, new channels, a new loop and a new serializer; if it
\* fails, `?` returns the io error
CommandConnect(opened) ==
  /\ tasks' = EmptyMap
  /\ task' = abort(task, Range(tasks))
  /\ IF opened
       THEN /\ printer' = "Connected"
            /\ com_task' = "running"
            /\ sequence' = SequencedDefault
            /\ oneshot' = DropSenders(oneshot,
                                      TableResponders(pending_responses)
                                        \cup Responders(Range(gcoderx)))
            /\ pending_responses' = EmptyMap
            /\ gcoderx' = <<>>
            /\ read_disabled' = FALSE
            /\ transport' = <<>>
            /\ responses' = <<>>
            /\ inbound' = <<>>
            /\ outcome' = None
            /\ UNCHANGED << pc, item, sends >>
       ELSE /\ outcome' = Some(Error("connect", "Io"))
            /\ UNCHANGED << printer, com_task, gcoderx, pending_responses,
                            read_disabled, transport, responses, inbound,
                            sequence, oneshot, pc, item, sends >>
  /\ UNCHANGED << buf, wire, encoderVars, macros, macro_call, applied >>

\* Commander::set_printer: self.tasks.clear(), and the printer is replaced
\* by the one auto-connect found, Connected or Disconnected
SetPrinter(found) == IF found THEN CommandConnect(TRUE) ELSE CommandDisconnect

\* start_repeat, one turn of the loop: socket.send_unsequenced(line).await?
\* has sent, and the task awaits the response
RepeatSends(p, max) ==
  /\ task[p].state = "running"
  /\ task[p].description = "repeat"
  /\ \E t \in Gcodes : SendUnsequenced(p, t, max)

\* start_repeat and send_gcodes: sender.reserve().await? fails, the
\* receiver being gone, and the task returns the error
RepeatEnds(p) ==
  /\ Polled(p)
  /\ task[p].state = "running"
  /\ task[p].description = "repeat" \/ task[p].codes # <<>>
  /\ com_task = "exited"
  /\ task' = [task EXCEPT ![p].state = "ended"]
  /\ outcome' = Some(Error("send_unsequenced", "SendReserve"))
  /\ UNCHANGED << printer, com_task, gcoderx, pending_responses, read_disabled,
                  transport, responses, inbound, sequence, oneshot, pc, item,
                  sends >>
  /\ UNCHANGED << buf, wire, encoderVars, macros, macro_call, tasks, applied >>

\* broadcast::Receiver::recv of a receiver that read cursor lines: more
\* lines than the channel holds were sent since
Lagged(cursor) == Len(responses) - cursor > BroadcastCap

\* start_logging, the spawned task: File::create, then the header row, then
\* one row for every broadcast line its parser accepts, the pattern logged
\* being one that accepts the temperature line alone
LogWrites(p) ==
  /\ task[p].state = "running"
  /\ task[p].description = "log"
  /\ \/ /\ task[p].at = "create"
        /\ task' = [task EXCEPT ![p].at = "header"]
     \/ /\ task[p].at = "header"
        /\ task' = [task EXCEPT ![p].at = "recv", ![p].acts = @ + 1]
     \/ /\ task[p].at = "recv"
        /\ task[p].cursor < Len(responses)
        /\ IF Lagged(task[p].cursor)
             THEN \* recv() gives Err(Lagged): `while let Ok` is over
                  task' = [task EXCEPT ![p].state = "ended",
                                       ![p].cursor = Len(responses) - BroadcastCap]
             ELSE task' = [task EXCEPT
                             ![p].cursor = @ + 1,
                             ![p].acts =
                               IF responses[task[p].cursor + 1] = TemperatureLine
                                 THEN @ + 1 ELSE @]
  /\ UNCHANGED << sessionVars, encoderVars, macros, macro_call, tasks, applied >>

TasksNext ==
  \/ Connect
  \/ \E name \in TaskNames, p \in Producers : Repeat(name, p)
  \/ \E name \in TaskNames, p \in Producers : Log(name, p)
  \/ \E name \in TaskNames : Stop(name)
  \/ \E p \in Producers : RepeatSends(p, MaxTaskSends)
  \/ \E p \in Producers : RepeatEnds(p)
  \/ \E p \in Producers : LogWrites(p)
  \/ \E io \in IoOutcomes : ComRecv(io)
  \/ \E line \in {OkLine, TemperatureLine} : ComRead(line, "ok", MaxTaskLines)

SpecTasks == Init /\ [][TasksNext]_vars

\* one log task and a device that sends more lines than the broadcast
\* channel holds
LagNext ==
  \/ Connect
  \/ Log("temps", "p1")
  \/ LogWrites("p1")
  \/ ComRead(TemperatureLine, "ok", MaxLagLines)

SpecLag == Init /\ [][LagNext]_vars

\* the registry over several sessions
RegistryNext ==
  \/ Connect
  \/ \E name \in TaskNames, p \in Producers : Repeat(name, p)
  \/ \E name \in TaskNames, p \in Producers : Log(name, p)
  \/ CommandDisconnect
  \/ \E opened \in BOOLEAN : CommandConnect(opened)
  \/ \E found \in BOOLEAN : SetPrinter(found)
  \/ \E p \in Producers : RepeatSends(p, MaxRegistrySends)
  \/ \E p \in Producers : LogWrites(p)
  \/ ComRecv("ok")

SpecRegistry == Init /\ [][RegistryNext]_vars

(***************************************************************************)
(* print3rs-commands/src/commands/connect.rs: auto_connect, which probes   *)
(* the serial ports one after the other.  `applied` holds the ports (TRUE: *)
(* the port opens), the port under test, the response awaited and the      *)
(* result.                                                                 *)
(***************************************************************************)
\* b"M115\n", a &[u8; 5]: serde serializes an array as a tuple of its bytes
M115Probe ==
  Tuple([i \in 1..5 |-> U8(Ord(<<"M", "1", "1", "5", "\n">>[i]))])

Probing(port, phase, awaiting, result) ==
  [port |-> port, phase |-> phase, awaiting |-> awaiting, result |-> result]

\* auto_connect is called: available_ports() gave the ports
AutoConnect(ports) ==
  /\ applied.op = "none"
  /\ printer = "Disconnected"
  /\ com_task = "none"
  /\ applied' = [op |-> "auto_connect", input |-> ports,
                 output |-> Probing(0, "closed", None, "probing")]
  /\ UNCHANGED << sessionVars, encoderVars, macros, macro_call, tasks, task >>

\* check_port, up to the sleep: the port does not open and check_port
\* returns None, or Printer::new starts a session on it
ProbeOpen ==
  /\ applied.op = "auto_connect"
  /\ applied.output.result = "probing"
  /\ applied.output.phase = "closed"
  /\ applied.output.port < Len(applied.input)
  /\ LET port == applied.output.port + 1
     IN  IF applied.input[port]
           THEN /\ applied' = [applied EXCEPT
                                 !.output = Probing(port, "open", None, "probing")]
                /\ printer' = "Connected"
                /\ com_task' = "running"
                /\ sequence' = SequencedDefault
                /\ pending_responses' = EmptyMap
                /\ gcoderx' = <<>>
                /\ read_disabled' = FALSE
                /\ transport' = <<>>
                /\ responses' = <<>>
                /\ inbound' = <<>>
                /\ outcome' = None
                /\ UNCHANGED << oneshot, pc, item, sends >>
           ELSE /\ applied' = [applied EXCEPT
                                 !.output = Probing(port, "closed", None, "probing")]
                /\ UNCHANGED sessionVars
  /\ UNCHANGED << buf, wire, encoderVars, macros, macro_call, tasks, task >>

\* Drop for Printer: com_task.abort(), and the responders the loop held go
DropPrinter ==
  /\ printer' = "Disconnected"
  /\ com_task' = "exited"
  /\ oneshot' = DropSenders(oneshot,
                            TableResponders(pending_responses)
                              \cup Responders(Range(gcoderx)))
  /\ pending_responses' = EmptyMap
  /\ gcoderx' = <<>>
  /\ UNCHANGED << read_disabled, transport, responses, inbound, outcome,
                  sequence, pc, item, sends >>

\* check_port, printer.send_unsequenced(b"M115\n").await.ok()?: the probe is
\* queued and its response future kept, or reserve fails and check_port
\* returns None
ProbeSend ==
  /\ applied.op = "auto_connect"
  /\ applied.output.phase = "open"
  /\ IF CanReserve
       THEN /\ gcoderx' = Append(gcoderx,
                                 SendContent(
                                   serialize_unsequenced(sequence, M115Probe).bytes,
                                   None, Some(Len(oneshot) + 1)))
            /\ sequence' = serialize_unsequenced(sequence, M115Probe).SEQUENCE
            /\ oneshot' = Append(oneshot, NewOneshot)
            /\ applied' = [applied EXCEPT
                             !.output.phase = "sent",
                             !.output.awaiting = Some(Len(oneshot) + 1)]
            /\ UNCHANGED << printer, com_task, pending_responses, read_disabled,
                            transport, responses, inbound, outcome, pc, item,
                            sends >>
       ELSE /\ applied' = [applied EXCEPT !.output.phase = "closed"]
            /\ DropPrinter
  /\ UNCHANGED << buf, wire, encoderVars, macros, macro_call, tasks, task >>

\* timeout(5 s, look_for_ok).await.is_ok(): the response future completed
\* in time, with Ok(()) or with Err(WontRespond), and check_port returns
\* Some(printer), which auto_connect returns
ProbeAccept ==
  /\ applied.op = "auto_connect"
  /\ applied.output.phase = "sent"
  /\ applied.output.result = "probing"
  /\ oneshot[applied.output.awaiting[1]].state # "open"
  /\ applied' = [applied EXCEPT !.output.result = "Connected"]
  /\ UNCHANGED << sessionVars, encoderVars, macros, macro_call, tasks, task >>

\* the timeout elapsed with the response future pending: check_port returns
\* None and its printer is dropped
ProbeTimeout ==
  /\ applied.op = "auto_connect"
  /\ applied.output.phase = "sent"
  /\ applied.output.result = "probing"
  /\ oneshot[applied.output.awaiting[1]].state = "open"
  /\ applied' = [applied EXCEPT !.output.phase = "closed"]
  /\ DropPrinter
  /\ UNCHANGED << buf, wire, encoderVars, macros, macro_call, tasks, task >>

\* auto_connect, after the loop: Printer::Disconnected
ProbeNone ==
  /\ applied.op = "auto_connect"
  /\ applied.output.phase = "closed"
  /\ applied.output.result = "probing"
  /\ applied.output.port = Len(applied.input)
  /\ applied' = [applied EXCEPT !.output.result = "Disconnected"]
  /\ UNCHANGED << sessionVars, encoderVars, macros, macro_call, tasks, task >>

AutoConnectNext ==
  \/ \E ports \in [1..MaxPorts -> BOOLEAN] : AutoConnect(ports)
  \/ ProbeOpen
  \/ ProbeSend
  \/ ProbeAccept
  \/ ProbeTimeout
  \/ ProbeNone
  \/ \E io \in IoOutcomes : ComRecv(io)
  \/ \E line \in {OkLine, TemperatureLine} : ComRead(line, "ok", MaxProbeLines)

SpecAutoConnect == Init /\ [][AutoConnectNext]_vars

(***************************************************************************)
(* print3rs-commands: the tasks that end by themselves, send_gcodes and    *)
(* start_print_file, and the arms of Commander::dispatch that start them.  *)
(***************************************************************************)
\* Commander::dispatch, Gcodes(codes): the name is gcodes_<COUNTER>, and
\* COUNTER is the number of send_gcodes tasks started so far
SendGcodes(codes, p) ==
  \/ Refused("socket")
  \/ /\ socket = None
     /\ LET COUNTER == Cardinality({q \in Producers :
                                      task[q].description = "gcodes"})
        IN  Spawn(<<"gcodes_0", "gcodes_1">>[COUNTER + 1], p, "gcodes",
                  expand(macros, codes))

\* send_gcodes, one turn of the loop: socket.send_unsequenced(code).await?
\* has sent, and the task awaits the response
BatchSends(p, max) ==
  /\ task[p].state = "running"
  /\ task[p].description = "gcodes"
  /\ task[p].codes # <<>>
  /\ SendUnsequenced(p, Str(Head(task[p].codes)), max)

\* send_gcodes: the response to the last code has come, or its sender was
\* dropped, and the task returns Ok(())
BatchEnds(p) ==
  /\ Polled(p)
  /\ task[p].state = "running"
  /\ task[p].description = "gcodes"
  /\ task[p].codes = <<>>
  /\ task' = [task EXCEPT ![p].state = "ended"]
  /\ UNCHANGED << sessionVars, encoderVars, macros, macro_call, tasks, applied >>

\* a split that keeps the comment
keep_comment(line) == line

RECURSIVE strip_comment(_)
\* line.split_once(';'): what stands before the first `;`, or the line
strip_comment(line) ==
  IF line = <<>> \/ Head(line) = ";" THEN <<>>
  ELSE << Head(line) >> \o strip_comment(Tail(line))

RECURSIVE skip_empty(_)
\* start_print_file, `continue`: the lines from the first one that is not
\* empty once its comment is stripped
skip_empty(lines) ==
  IF lines # <<>> /\ strip_comment(Head(lines)) = <<>>
    THEN skip_empty(Tail(lines))
    ELSE lines

\* the file printed: two codes, one with a comment, a comment line and an
\* empty line
PrintFile ==
  << <<"G", "0">>, <<";", "k">>, <<>>, <<"G", "1", " ", ";", "k", ";">> >>

\* Commander::dispatch, Print(filename)
PrintCommand(filename, p) ==
  \/ Refused("socket")
  \/ socket = None /\ Spawn(filename, p, "print", PrintFile)

\* start_print_file, one turn of the loop: the acknowledgement of the line
\* before has come, and socket.send(line).await? reserves, serializes with
\* the next number and sends; the task awaits the response
PrintSends(p, max) ==
  /\ task[p].state = "running"
  /\ task[p].description = "print"
  /\ IF task[p].waiting = None THEN TRUE
     ELSE oneshot[task[p].waiting[1]].state = "sent"
  /\ skip_empty(task[p].codes) # <<>>
  /\ sends < max
  /\ CanReserve
  /\ LET rest == skip_empty(task[p].codes)
         r == SequencedSerialize(sequence, Str(strip_comment(Head(rest))))
     IN  /\ sequence' = r.next
         /\ gcoderx' = Append(gcoderx,
                              SendContent(r.bytes, Some(r.sequence),
                                          Some(Len(oneshot) + 1)))
         /\ task' = [task EXCEPT ![p].waiting = Some(Len(oneshot) + 1),
                                 ![p].acts = @ + 1,
                                 ![p].codes = Tail(rest)]
  /\ oneshot' = Append(oneshot, NewOneshot)
  /\ sends' = sends + 1
  /\ outcome' = None
  /\ UNCHANGED << printer, com_task, pending_responses, read_disabled,
                  transport, responses, inbound, pc, item >>
  /\ UNCHANGED << buf, wire, encoderVars, macros, macro_call, tasks, applied >>

\* start_print_file returns: the response future gave WontRespond, or
\* reserve failed, the receiver being gone, or the lines are at their end
PrintEnds(p) ==
  /\ task[p].state = "running"
  /\ task[p].description = "print"
  /\ IF task[p].waiting = None THEN TRUE
     ELSE oneshot[task[p].waiting[1]].state # "open"
  /\ LET acked == IF task[p].waiting = None THEN TRUE
                  ELSE oneshot[task[p].waiting[1]].state = "sent"
     IN  \/ ~acked
         \/ skip_empty(task[p].codes) = <<>>
         \/ com_task = "exited"
  /\ task' = [task EXCEPT ![p].state = "ended"]
  /\ UNCHANGED << sessionVars, encoderVars, macros, macro_call, tasks, applied >>

PrintNext ==
  \/ Connect
  \/ \E p \in Producers : PrintCommand("part.gcode", p)
  \/ Stop("part.gcode")
  \/ \E p \in Producers : PrintSends(p, MaxPrintSends)
  \/ \E p \in Producers : PrintEnds(p)
  \/ \E io \in IoOutcomes : ComRecv(io)
  \/ \E line \in {OkN(1), OkN(2)} : ComRead(line, "ok", MaxPrintLines)

SpecPrint == Init /\ [][PrintNext]_vars

\* the commands that need a session, typed with and without one
CommandsNext ==
  \/ Connect
  \/ CommandDisconnect
  \/ \E name \in MacroNames, commands \in MacroSteps :
       Macro(name, commands, MaxCommandMacros)
  \/ \E p \in Producers : SendGcodes(<< <<"g", "0">> >>, p)
  \/ \E p \in Producers : PrintCommand("part.gcode", p)
  \/ \E name \in TaskNames, p \in Producers : Log(name, p)
  \/ \E name \in TaskNames, p \in Producers : Repeat(name, p)

SpecCommands == Init /\ [][CommandsNext]_vars

JobsNext ==
  \/ Connect
  \/ \E codes \in {<< <<"g", "0">> >>, << <<"g", "0">>, <<"g", "1">> >>},
        p \in Producers : SendGcodes(codes, p)
  \/ \E name \in {"gcodes_0", "gcodes_1"} : Stop(name)
  \/ \E p \in Producers : BatchSends(p, MaxJobSends)
  \/ \E p \in Producers : BatchEnds(p)
  \/ \E p \in Producers : RepeatEnds(p)
  \/ \E io \in IoOutcomes : ComRecv(io)
  \/ \E line \in {OkLine, OkN(1)} : ComRead(line, "ok", MaxJobLines)

SpecJobs == Init /\ [][JobsNext]_vars

\* the runtime polls a task that can run, and the loop of the session takes
\* what is in its channel; what the device sends and what the user types is
\* left to them
SpecJobsFair ==
  /\ SpecJobs
  /\ \A p \in Producers :
       /\ WF_vars(BatchSends(p, MaxJobSends))
       /\ WF_vars(BatchEnds(p))
       /\ WF_vars(RepeatEnds(p))
  /\ WF_vars(\E io \in IoOutcomes : ComRecv(io))

(***************************************************************************)
(* The claims.                                                             *)
(***************************************************************************)
\* the loop handled `line` to the end: it is the line now published
Handled(line) == responses' = Append(responses, line)

\* every table entry but `key` is as it was
OthersKept(key) ==
  /\ DOMAIN pending_responses' = DOMAIN pending_responses \ {key}
  /\ \A k \in DOMAIN pending_responses' :
       pending_responses'[k] = pending_responses[k]

\* every oneshot but `id` is as it was
OtherWaitersKept(id) ==
  /\ Len(oneshot') = Len(oneshot)
  /\ \A i \in 1..Len(oneshot) : i # id => oneshot'[i] = oneshot[i]

\* C1: when `ok N<k>` is handled while Some(k) is pending, that entry's
\* completion fires exactly once and the entry is removed, every other entry
\* and waiter being left as it was; with no entry Some(k) the table and all
\* waiters are unchanged.
C1_AckCorrelation ==
  [][\A k \in Numbers :
       Handled(OkN(k)) =>
         IF Some(k) \in DOMAIN pending_responses
           THEN LET id == pending_responses[Some(k)].responder
                IN  /\ oneshot[id] = [state |-> "open", sends |-> 0]
                    /\ oneshot'[id] = [state |-> "sent", sends |-> 1]
                    /\ OtherWaitersKept(id)
                    /\ OthersKept(Some(k))
           ELSE /\ pending_responses' = pending_responses
                /\ oneshot' = oneshot]_vars

\* C1 witness: `ok N1` was the last line handled, the waiter of line 1 was
\* completed by it and another request is still pending.
C1_Witness ==
  /\ responses # <<>>
  /\ responses[Len(responses)] = OkN(1)
  /\ \E id \in 1..Len(oneshot) : oneshot[id].state = "sent"
  /\ Some(2) \in DOMAIN pending_responses

Resent(content) ==
  Cardinality({i \in 1..Len(transport) : transport[i] = content}) > 1

Dequeued ==
  /\ gcoderx # <<>>
  /\ gcoderx' = Tail(gcoderx)
  /\ com_task' = "running"

\* C3: the pending-request table never holds more than four entries, and
\* the loop takes no request from the outbound queue while it holds four.
C3_InFlightCap ==
  /\ [](Cardinality(DOMAIN pending_responses) <= 4)
  /\ [][Dequeued => Cardinality(DOMAIN pending_responses) < 4]_vars

\* C3 witness: four requests are pending and a fifth waits in the queue.
C3_Witness ==
  /\ Cardinality(DOMAIN pending_responses) = 4
  /\ gcoderx # <<>>
  /\ com_task = "running"

\* C4: once the session loop has terminated and no send call is in
\* progress, no completion is left unresolved (here with the Printer still
\* holding its socket).
C4_DisconnectFlush ==
  (/\ com_task = "exited"
   /\ printer = "Connected"
   /\ \A p \in Producers : pc[p] = "idle") =>
    \A id \in 1..Len(oneshot) : oneshot[id].state # "open"

\* C5: when a read returns zero bytes or fails, the session loop exits.
C5_ExitOnEof == read_disabled => com_task = "exited"

\* C6: once the loop has exited the session is Disconnected; Connected
\* holds only with a live loop.
C6_StateFollowsLoop == printer = "Connected" => com_task = "running"

\* the number after the leading N of a sequenced line
LineNumber(content) == DecValue(DigitRun(Tail(content)), 0)[1]

IsSequenced(content) == content # <<>> /\ Head(content) = "N"

\* the write at position j is a first transmission, not a resend
FirstTime(j) == \A i \in 1..(j - 1) : transport[i] # transport[j]

\* C7: the sequence numbers of the first-time sequenced lines written to
\* the stream are strictly increasing.
C7_WireOrder ==
  \A i, j \in 1..Len(transport) :
    (/\ i < j
     /\ IsSequenced(transport[i])
     /\ IsSequenced(transport[j])
     /\ FirstTime(j)) =>
      LineNumber(transport[i]) < LineNumber(transport[j])

\* the sequence numbers handed out so far: those of the lines returned and
\* those the threads hold
Issued ==
  {lines_out[i].sequence[1] :
     i \in {n \in 1..Len(lines_out) : lines_out[n].sequence # None}}
    \cup {held[t][1] : t \in {u \in Threads : held[u] # None}}

SequencedCalls ==
  Cardinality({n \in 1..Len(lines_out) : lines_out[n].sequence # None})
    + Cardinality({u \in Threads : held[u] # None})

\* C8: whatever the interleaving of the threads, the sequence numbers handed
\* out are exactly 1, 2, 3, ...: none twice, none skipped, and each line
\* carries the number its call was given.
C8_SequenceMonotonic ==
  /\ Issued = 1..SequencedCalls
  /\ \A n \in 1..Len(lines_out) :
       lines_out[n].sequence # None =>
         /\ IsSequenced(lines_out[n].bytes)
         /\ LineNumber(lines_out[n].bytes) = lines_out[n].sequence[1]

\* C8 witness: two threads hold a sequence number each at the same time,
\* after a first line was returned.
C8_Witness ==
  /\ \A t \in Threads : held[t] # None
  /\ \E n \in 1..Len(lines_out) : lines_out[n].sequence # None

\* the position of the last '*' of a line
LastStar(bytes) == CHOOSE i \in 1..Len(bytes) :
                     bytes[i] = "*" /\ \A j \in (i + 1)..Len(bytes) : bytes[j] # "*"

RECURSIVE XorOfBytes(_)
XorOfBytes(bytes) ==
  IF bytes = <<>> THEN 0 ELSE Xor8(Ord(Head(bytes)), XorOfBytes(Tail(bytes)))

\* C9: in every sequenced line the decimal number between '*' and the
\* final newline is the XOR of every byte before the '*', N<seq> included.
C9_ChecksumLaw ==
  \A n \in 1..Len(lines_out) :
    lines_out[n].sequence # None =>
      LET bytes == lines_out[n].bytes
          star  == LastStar(bytes)
          digits == SubSeq(bytes, star + 1, Len(bytes) - 1)
      IN  /\ bytes[Len(bytes)] = "\n"
          /\ \E i \in 1..Len(bytes) : bytes[i] = "*"
          /\ digits # <<>>
          /\ \A i \in 1..Len(digits) : IsDigit(digits[i])
          /\ DecValue(digits, 0) = Some(XorOfBytes(SubSeq(bytes, 1, star - 1)))

\* C9 witness: the line of test::atomic_counter, N2G1234X-1Y2.3*13
C9_Witness ==
  \E n \in 1..Len(lines_out) :
    lines_out[n].bytes =
      <<"N", "2", "G", "1", "2", "3", "4", "X", "-", "1", "Y", "2", ".", "3",
        "*", "1", "3", "\n">>

\* the rendered body of a value: what the writer puts for it, with no
\* line framing
Body(v) == serialize_value(GcodeLineWriter(<<>>, None), v).buffer

\* C10: an unsequenced serialization leaves the counter as it was and
\* returns the rendered body and a newline, with no N<seq> before and no
\* *<checksum> after; so the counter, and with it the number of the next
\* sequenced line, counts the sequenced calls only.
C10_UnsequencedFrame ==
  /\ [][\A v \in Values :
          (/\ Len(lines_out') = Len(lines_out) + 1
           /\ lines_out'[Len(lines_out')].sequence = None
           /\ lines_out'[Len(lines_out')].value = v) =>
            /\ SEQUENCE' = SEQUENCE
            /\ lines_out'[Len(lines_out')].bytes = Body(v) \o <<"\n">>]_vars
  /\ [](SEQUENCE = SequencedCalls + 1)

\* C10 witness: test::unit_serialize_works, M1234 unsequenced and then
\* G1234 as line 1
C10_Witness ==
  /\ Len(lines_out) = 2
  /\ lines_out[1].bytes = <<"M", "1", "2", "3", "4", "\n">>
  /\ lines_out[2].bytes =
       <<"N", "1", "G", "1", "2", "3", "4", "X", "-", "1", "Y", "2", ".", "3",
         "*", "1", "4", "\n">>

\* the sequenced keys of the pending-request table
SequencedKeys == {k \in DOMAIN pending_responses : k # None}

\* the retained bytes of the entries under `keys`, in increasing key order
RECURSIVE InKeyOrder(_)
InKeyOrder(keys) ==
  IF keys = {} THEN <<>>
  ELSE LET least == CHOOSE k \in keys : \A other \in keys : k[1] <= other[1]
       IN  <<pending_responses[least].content>> \o InKeyOrder(keys \ {least})

\* C11: when `Resend:` with no number is handled while sequenced entries
\* are pending, the retained bytes of every one of them are written again,
\* in increasing order of sequence number, and all entries stay pending.
C11_ResendAll ==
  [][(Handled(ResendBare) /\ SequencedKeys # {}) =>
       /\ transport' = transport \o InKeyOrder(SequencedKeys)
       /\ pending_responses' = pending_responses]_vars

\* the responders still held somewhere: in the table, in the queue or by a
\* send call that has not pushed its request yet
HeldResponders ==
  TableResponders(pending_responses)
    \cup Responders(Range(gcoderx))
    \cup Responders({item[p] : p \in Producers})

\* C12: when an awaited unsequenced request is written while an earlier one
\* is pending under key None, the earlier entry is displaced by the new one
\* and its waiter gets WontRespond, every other entry and waiter being left
\* as it was; and no waiter is unresolved whose responder is not in the
\* table, in the queue or on its way there, so at most one unsequenced
\* awaiter is in flight.
C12_SingleNoneSlot ==
  /\ [][(/\ Dequeued
         /\ Head(gcoderx).sequence = None
         /\ Head(gcoderx).responder # None
         /\ None \in DOMAIN pending_responses) =>
          LET old == pending_responses[None].responder
              new == Head(gcoderx).responder[1]
          IN  /\ old # new
              /\ oneshot[old].state = "open"
              /\ oneshot'[old] = [state |-> "dropped", sends |-> 0]
              /\ OtherWaitersKept(old)
              /\ pending_responses'[None] =
                   [responder |-> new, content |-> Head(gcoderx).content]
              /\ DOMAIN pending_responses' = DOMAIN pending_responses
              /\ \A k \in DOMAIN pending_responses \ {None} :
                   pending_responses'[k] = pending_responses[k]]_vars
  /\ [](\A id \in 1..Len(oneshot) :
          oneshot[id].state = "open" => id \in HeldResponders)

\* C12 witness: the second unsequenced request took the None slot of the
\* first, whose waiter got WontRespond, in a session that is still running.
C12_Witness ==
  /\ com_task = "running"
  /\ Len(oneshot) = 2
  /\ oneshot[1].state = "dropped"
  /\ oneshot[2].state = "open"
  /\ DOMAIN pending_responses = {None}
  /\ pending_responses[None].responder = 2

\* C13: a bare `ok` removes and fires the entry keyed None and no other:
\* every entry keyed Some(n) and its waiter are left as they were, and with
\* no entry under None nothing changes.
C13_BareOk ==
  [][Handled(OkLine) =>
       IF None \in DOMAIN pending_responses
         THEN LET id == pending_responses[None].responder
              IN  /\ oneshot[id] = [state |-> "open", sends |-> 0]
                  /\ oneshot'[id] = [state |-> "sent", sends |-> 1]
                  /\ OtherWaitersKept(id)
                  /\ OthersKept(None)
         ELSE /\ pending_responses' = pending_responses
              /\ oneshot' = oneshot]_vars

\* C13 witness: a bare `ok` completed the unsequenced request while two
\* sequenced requests, written before it, are still pending and unresolved.
C13_Witness ==
  /\ responses # <<>>
  /\ responses[Len(responses)] = OkLine
  /\ DOMAIN pending_responses = {Some(1), Some(2)}
  /\ Len(oneshot) = 3
  /\ oneshot[3].state = "sent"
  /\ oneshot[1].state = "open"
  /\ oneshot[2].state = "open"

IsResendRequest(line) ==
  /\ Parsed[line].ok
  /\ Parsed[line].val.tag = "Resend"

C15_DisconnectedRefuses ==
  /\ [](printer = "Disconnected" =>
          \A op \in PublicOps :
            /\ ENABLED Refused(op)
            /\ ~ENABLED Delegated(op, sends + 1))
  /\ [][(printer = "Disconnected" /\ printer' = "Disconnected") =>
          /\ sends' = sends
          /\ sequence' = sequence
          /\ oneshot' = oneshot
          /\ transport' = transport
          /\ \/ outcome' = outcome
             \/ /\ \E op \in PublicOps :
                     outcome' = Some(Error(op, "Disconnected"))
                /\ UNCHANGED << com_task, gcoderx, pending_responses,
                                read_disabled, responses, inbound, pc,
                                item >>]_vars

\* C15 witness: after a session in which a line was written and a call
\* returned Ok, the printer was disconnected and try_send returned the
\* Disconnected error.
C15_Witness ==
  /\ printer = "Disconnected"
  /\ com_task = "exited"
  /\ transport # <<>>
  /\ outcome = Some(Error("try_send", "Disconnected"))

\* the slots of the outbound queue in use: the requests queued and the
\* permits handed out
Occupied == Len(gcoderx) + Cardinality({p \in Producers : pc[p] # "idle"})

QueueFull == com_task = "running" /\ Occupied = QueueCap

\* C16: the outbound queue never holds more than its capacity; while it is
\* full every try_send* variant can only return its error and no send*
\* variant goes on; a try_send* that returns the error enqueues nothing and
\* changes nothing; and a call that is accepted takes exactly one slot.
C16_Backpressure ==
  /\ [](Occupied <= QueueCap)
  /\ [](QueueFull =>
          /\ \A p \in {q \in Producers : pc[q] = "idle"}, op \in TryOps :
               ENABLED TryReserveFails(p, op)
          /\ \A p \in Producers, t \in Gcodes, bytes \in RawBytes :
               /\ ~ENABLED Send(p, t, sends + 1)
               /\ ~ENABLED SendUnsequenced(p, t, sends + 1)
               /\ ~ENABLED SendRaw(p, bytes, sends + 1))
  /\ [][/\ (outcome' # outcome /\ outcome' # None) =>
             /\ outcome'[1].op \in TryOps => outcome'[1].error = "Sender"
             /\ ~CanReserve
             /\ UNCHANGED << gcoderx, pc, item, sends, oneshot, sequence,
                             pending_responses, transport >>
        /\ sends' # sends =>
             /\ sends' = sends + 1
             /\ Occupied < QueueCap
             /\ Occupied' = Occupied + 1]_vars

\* C16 witness: sixteen requests are queued before a running loop and
\* try_send_raw has returned its error.
C16_Witness ==
  /\ com_task = "running"
  /\ Len(gcoderx) = QueueCap
  /\ outcome = Some(Error("try_send_raw", "Sender"))

\* the first sequenced line written to the stream of the session
FirstSequenced ==
  LET at == {i \in 1..Len(transport) : IsSequenced(transport[i])}
  IN  IF at = {} THEN None
      ELSE Some(transport[CHOOSE i \in at : \A j \in at : i <= j])

\* C17: the first sequenced line written in a session carries sequence
\* number 1.
C17_FirstLineIsOne ==
  FirstSequenced # None => LineNumber(FirstSequenced[1]) = 1

\* C18, as stated: immediately after a successful add(name, steps) the
\* expansion stored for name holds no token that is, whatever its case, a
\* name present in the macro table.
C18_StoredExpansionFlat ==
  (macro_call.op = "add" /\ macro_call.result = "Ok") =>
    \A token \in Range(macros[to_ascii_uppercase(macro_call.name)]) :
      to_ascii_uppercase(token) \notin DOMAIN macros

\* C18, amended: immediately after a successful add(name, steps) the
\* expansion stored for name holds no token that is, whatever its case, a
\* name the macro table held before the add; the one name of the table it
\* can hold is name itself, when name was not defined before the add.
C18_FlatAgainstTableBefore ==
  [][(/\ macro_call'.n # macro_call.n
      /\ macro_call'.op = "add"
      /\ macro_call'.result = "Ok") =>
       LET key == to_ascii_uppercase(macro_call'.name)
       IN  /\ key \in DOMAIN macros'
           /\ \A token \in Range(macros'[key]) :
                /\ to_ascii_uppercase(token) \notin DOMAIN macros
                /\ to_ascii_uppercase(token) \in DOMAIN macros' =>
                     (token = key /\ key \notin DOMAIN macros)]_vars

\* a successful add has replaced a step by the several steps of a macro
C18_Witness ==
  /\ macro_call.op = "add"
  /\ macro_call.result = "Ok"
  /\ \E i \in DOMAIN macro_call.steps :
       /\ to_ascii_uppercase(macro_call.steps[i]) \in DOMAIN macros
       /\ macro_call.steps[i] # macro_call.name
  /\ Len(macros[to_ascii_uppercase(macro_call.name)]) > Len(macro_call.steps)

\* the names of the table that the stored expansion of `name` mentions
Mentions(table, name) ==
  {to_ascii_uppercase(token) : token \in Range(table[name])} \cap DOMAIN table

RECURSIVE Within(_, _, _)
\* the names met on the paths of at most k mentions that start from `names`
Within(table, names, k) ==
  IF k = 0 THEN {}
  ELSE LET next == UNION {Mentions(table, name) : name \in names}
       IN  next \cup Within(table, next, k - 1)

\* the names an expansion path that starts at `name` can come to
Reached(table, name) == Within(table, {name}, Cardinality(DOMAIN table))

\* the expansion of the steps comes back to a name that is on its own path
Revisits(table, steps) ==
  \E i \in DOMAIN steps :
    LET start == to_ascii_uppercase(steps[i])
    IN  /\ start \in DOMAIN table
        /\ \E name \in {start} \cup Reached(table, start) :
             name \in Reached(table, name)

\* C19: an add whose recursive expansion against the current table comes
\* back to a name already on its own expansion path returns the cycle error
\* and leaves the macro table exactly as it was; an add whose steps mention
\* only names that do not recurse, names not yet defined included, succeeds
\* and stores an expansion under the name.
C19_CycleRejection ==
  [][(macro_call'.n # macro_call.n /\ macro_call'.op = "add") =>
       IF Revisits(macros, macro_call'.steps)
         THEN /\ macro_call'.result = "InfiniteRecursion"
              /\ macros' = macros
         ELSE /\ macro_call'.result = "Ok"
              /\ DOMAIN macros' =
                   DOMAIN macros \cup {to_ascii_uppercase(macro_call'.name)}
              /\ \A name \in DOMAIN macros :
                   name # to_ascii_uppercase(macro_call'.name) =>
                     macros'[name] = macros[name]]_vars

\* an add was rejected whose only step names a macro that does not mention
\* itself: its expansion came to the cycle through another macro, which an
\* add that mentioned its own, not yet defined, name had stored
C19_Witness ==
  /\ macro_call.op = "add"
  /\ macro_call.result = "InfiniteRecursion"
  /\ Len(macro_call.steps) = 1
  /\ LET start == to_ascii_uppercase(macro_call.steps[1])
     IN  /\ start \in DOMAIN macros
         /\ start \notin Mentions(macros, start)
         /\ \E name \in Reached(macros, start) : name \in Mentions(macros, name)

\* a task that was spawned and whose registry entry is gone
Unregistered(p) == task[p].state # "none" /\ p \notin Range(tasks)

C21_EndedIsRemoved ==
  \A p \in Producers :
    (task[p].state = "ended") ~> (p \notin Range(tasks))

\* the registry is empty and every task that was registered is cancelled
Cleared ==
  /\ tasks' = EmptyMap
  /\ \A p \in Range(tasks) : task'[p].state # "running"
  /\ \A p \in Producers : p \notin Range(tasks) => task'[p] = task[p]

\* C22: after `disconnect`, after a successful `connect` and after
\* `set_printer` the task registry is empty and every task that was
\* registered has been cancelled; after `disconnect` the session is
\* Disconnected.
C22_ClearedOnReconnect ==
  [][/\ CommandDisconnect => (Cleared /\ printer' = "Disconnected")
     /\ CommandConnect(TRUE) => (Cleared /\ printer' = "Connected")
     /\ \A found \in BOOLEAN : SetPrinter(found) => Cleared]_vars

\* the session was disconnected with two tasks registered and running, one
\* of which had sent or written
C22_Witness ==
  /\ printer = "Disconnected"
  /\ com_task = "exited"
  /\ tasks = EmptyMap
  /\ \A p \in Producers : task[p].state = "aborted"
  /\ \E p \in Producers : task[p].acts > 0

\* what a line holds before its first `;`
BeforeComment(line) ==
  LET marks == {i \in 1..Len(line) : line[i] = ";"}
  IN  IF marks = {} THEN line
      ELSE SubSeq(line, 1, (CHOOSE i \in marks : \A j \in marks : i <= j) - 1)

\* the lines a print of the file sends, in file order
PrintedLines ==
  LET NonEmpty(line) == line # <<>>
  IN  SelectSeq([i \in 1..Len(PrintFile) |-> BeforeComment(PrintFile[i])],
                NonEmpty)

\* the response the print task p awaits has come as Ok
PrintAcked(p) ==
  IF task[p].waiting = None THEN TRUE
  ELSE oneshot[task[p].waiting[1]].state = "sent"

\* C23: a print task sends the lines of the file in file order, each
\* through the sequenced send with the next line number, its comment
\* stripped and the empty results skipped; it sends a line only when the
\* line before was acknowledged; and it ends only at the end of the file
\* or at a send or acknowledgement error.
C23_PrintInOrder ==
  [][\A p \in Producers :
       /\ (task[p].description = "print" /\ task'[p].acts = task[p].acts + 1)
            => /\ task'[p].acts <= Len(PrintedLines)
               /\ PrintAcked(p)
               /\ gcoderx' = Append(gcoderx, gcoderx'[Len(gcoderx')])
               /\ gcoderx'[Len(gcoderx')].content
                    = serialize(sequence, Str(PrintedLines[task'[p].acts]))
               /\ gcoderx'[Len(gcoderx')].sequence = Some(sequence)
               /\ sequence' = sequence + 1
       /\ (/\ task[p].description = "print"
           /\ task[p].state = "running"
           /\ task'[p].state = "ended")
            => \/ PrintAcked(p) /\ task[p].acts = Len(PrintedLines)
               \/ ~PrintAcked(p)
               \/ com_task = "exited"]_vars

\* a print task has ended at the end of the file, both lines acknowledged
C23_Witness ==
  \E p \in Producers :
    /\ task[p].description = "print"
    /\ task[p].state = "ended"
    /\ task[p].acts = 2
    /\ PrintAcked(p)
    /\ com_task = "running"
\* C24: a repeat task or a batch-send task whose send or acknowledgement
\* failed (the response it awaits was dropped, WontRespond) sends no
\* further code.
C24_StopOnError ==
  [][\A p \in Producers :
       (/\ task[p].description \in {"repeat", "gcodes"}
        /\ task[p].waiting # None
        /\ oneshot[task[p].waiting[1]].state = "dropped")
         => task'[p].acts = task[p].acts]_vars
\* C25: a log task that reads takes the oldest line the channel still
\* retains, and goes on reading: it is still running after the read.
C25_LaggingKeepsReading ==
  [][\A p \in Producers :
       (/\ task[p].description = "log"
        /\ task[p].state = "running"
        /\ task[p].at = "recv"
        /\ task'[p] # task[p]
        /\ task'[p].state # "aborted")
         => LET retained == Len(responses) - BroadcastCap
                oldest == IF task[p].cursor > retained THEN task[p].cursor
                          ELSE retained
            IN  /\ task'[p].state = "running"
                /\ task'[p].cursor = oldest + 1]_vars
\* C26: a line that holds, after any prefix and before any suffix, text
\* the pattern matches yields the values of that text, in pattern order.
C26_PatternExtraction ==
  applied.op = "parse" =>
    /\ applied.output.ok
    /\ applied.output.val
         = [i \in DOMAIN applied.input.numerals |->
              float(applied.input.numerals[i]).val]
\* the line the session loop has just read
LineRead == inbound'[Len(inbound')]

\* what the loop does to the pending table and the waiters on a line that
\* gives the acknowledgement ack
TableAfter(ack) ==
  IF ack # None /\ ack[1].tag = "Ok" /\ ack[1].seq \in DOMAIN pending_responses
    THEN /\ pending_responses' = Remove(pending_responses, ack[1].seq)
         /\ oneshot' = SendOneshot(oneshot,
                                   pending_responses[ack[1].seq].responder)
    ELSE UNCHANGED << pending_responses, oneshot >>

\* the acknowledgement the vocabulary gives for a line
Acknowledges(line) == (CHOOSE v \in Vocabulary : v.line = line).ack

\* the acknowledgement of a line that has one of the five forms, and none
\* for any other line
ListedOnly(line) ==
  LET v == CHOOSE w \in Vocabulary : w.line = line
  IN  IF v.listed THEN v.ack ELSE None

C28_AutoProbeAcceptance ==
  [][(/\ applied.op = "auto_connect"
      /\ applied'.op = "auto_connect"
      /\ applied'.output.result # applied.output.result)
       => IF applied'.output.result = "Connected"
            THEN /\ applied.output.awaiting # None
                 /\ oneshot[applied.output.awaiting[1]].state = "sent"
                 /\ com_task = "running"
            ELSE /\ applied'.output.result = "Disconnected"
                 /\ applied.output.port = Len(applied.input)
                 /\ printer = "Disconnected"]_vars
RECURSIVE Concat(_)
Concat(pieces) ==
  IF pieces = <<>> THEN <<>> ELSE Head(pieces) \o Concat(Tail(pieces))

\* C29: expand gives, in input order, for each token the stored expansion
\* of the macro it names (the name compared in upper case, the expansion
\* taken as stored) or else the token in upper case; with an empty table
\* the output is the input in upper case, token for token.
C29_ExpandAtUse ==
  [][(applied' # applied /\ applied'.op = "expand") =>
       LET codes == applied'.input
           Upper(i) == [k \in 1..Len(codes[i]) |-> ToAsciiUpper(codes[i][k])]
           Piece(i) == IF Upper(i) \in DOMAIN macros THEN macros[Upper(i)]
                       ELSE << Upper(i) >>
       IN  /\ applied'.output = Concat([i \in 1..Len(codes) |-> Piece(i)])
           /\ macros = EmptyMap =>
                /\ Len(applied'.output) = Len(codes)
                /\ \A i \in 1..Len(codes) : applied'.output[i] = Upper(i)]_vars

\* a token of another case named a macro whose stored expansion holds the
\* name of a macro: the expansion came out as it is stored, one level only
C29_Witness ==
  /\ applied.op = "expand"
  /\ \E i \in 1..Len(applied.input) :
       /\ applied.input[i] \notin DOMAIN macros
       /\ to_ascii_uppercase(applied.input[i]) \in DOMAIN macros
  /\ \E j \in 1..Len(applied.output) : applied.output[j] \in DOMAIN macros
  /\ applied.output = expand(macros, applied.input)
\* C30: a step in which the write or the flush of a request fails, at its
\* first transmission or at a resend, ends the session loop; nothing is
\* written or published in that step, the pending table is gone with every
\* entry it held, the failed request is in no table, and the waiter of the
\* failed request and those of every entry of the table and of the queue
\* are resolved to WontRespond.  A request leaves the queue of a live loop
\* only written.
C30_WriteFailureEndsSession ==
  [][/\ (com_task = "running" /\ com_task' = "exited") =>
          /\ transport' = transport
          /\ responses' = responses
          /\ pending_responses' = EmptyMap
          /\ \A id \in TableResponders(pending_responses)
                         \cup Responders(Range(gcoderx)) :
               oneshot'[id].state = "dropped"
          /\ inbound' = inbound => gcoderx # <<>>
     /\ (/\ com_task = "running"
         /\ com_task' = "running"
         /\ gcoderx # <<>>
         /\ gcoderx' = Tail(gcoderx)) =>
          transport' = Append(transport, Head(gcoderx).content)]_vars

\* the first transmission of a request failed with another request pending:
\* the loop is gone and both waiters have WontRespond
C30_Witness ==
  /\ com_task = "exited"
  /\ Len(responses) = Len(inbound)
  /\ pending_responses = EmptyMap
  /\ Cardinality({i \in DOMAIN oneshot : oneshot[i].state = "dropped"}) >= 2
  /\ transport # <<>>
\* C31: a raw request is written as the bytes it was given and the step
\* that writes it changes neither the pending-request table nor any
\* responder; no entry of the table ever holds raw bytes, so a Resend never
\* writes them again and an `ok` never completes them
C31_RawRequestsUntracked ==
  [][/\ (/\ com_task = "running" /\ com_task' = "running"
         /\ gcoderx # <<>> /\ gcoderx' = Tail(gcoderx)
         /\ Head(gcoderx).content \in RawBytes)
        => /\ transport' = Append(transport, Head(gcoderx).content)
           /\ UNCHANGED << pending_responses, oneshot >>
     /\ \A k \in DOMAIN pending_responses' :
          pending_responses'[k].content \notin RawBytes
     /\ (inbound' # inbound /\ transport' # transport)
        => /\ Len(transport') = Len(transport) + 1
           /\ transport'[Len(transport')] \notin RawBytes]_vars

\* a raw request was written while an unsequenced request was pending under
\* the key None, and that entry is still in the table
C31_Witness ==
  /\ com_task = "running"
  /\ None \in DOMAIN pending_responses
  /\ Len(transport) >= 2
  /\ transport[Len(transport)] \in RawBytes
  /\ transport[Len(transport) - 1] = pending_responses[None].content

\* C32: every write on the transport is the whole content of one request:
\* of the request at the head of the queue, which leaves the queue in that
\* step, or, on a Resend, of one entry of the pending-request table; the
\* queue grows only at its end and shrinks only at its head, so requests
\* are first written in the order they entered the queue
C32_WritesWholeAndInOrder ==
  [][/\ transport' # transport
        => \/ /\ inbound' = inbound
              /\ gcoderx # <<>>
              /\ transport' = Append(transport, Head(gcoderx).content)
              /\ gcoderx' = Tail(gcoderx)
           \/ /\ inbound' # inbound
              /\ gcoderx' = gcoderx
              /\ \E k \in DOMAIN pending_responses :
                   transport' = Append(transport, pending_responses[k].content)
     /\ gcoderx' # gcoderx
        => \/ /\ Len(gcoderx') = Len(gcoderx) + 1
              /\ SubSeq(gcoderx', 1, Len(gcoderx)) = gcoderx
              /\ UNCHANGED transport
           \/ /\ gcoderx # <<>>
              /\ gcoderx' = Tail(gcoderx)
              /\ transport' = Append(transport, Head(gcoderx).content)
           \/ /\ com_task' = "exited"
              /\ gcoderx' = <<>>
              /\ UNCHANGED transport]_vars

\* the request numbered 2 entered the queue before the request numbered 1
\* and was written before it, and the retransmission of request 1 followed
C32_Witness ==
  /\ Len(transport) = 3
  /\ transport[1] = SequencedSerialize(2, M1234).bytes
  /\ transport[2] = SequencedSerialize(1, M1234).bytes
  /\ transport[3] = transport[2]
  /\ Len(inbound) = 1

\* C35: every line the device sent and the loop has read to its end was
\* published whole, once and in order: what was published is the device's
\* lines up to the one still being read
C35_NoInboundLoss ==
  /\ Len(responses) = Len(inbound) - (IF wire # <<>> THEN 1 ELSE 0)
  /\ responses = SubSeq(inbound, 1, Len(responses))

\* the acknowledgement of the pending request numbered k was read, with its
\* first part lost, and the request is still in the table
Stale(k) == Some(k) \in DOMAIN pending_responses /\ OkN(k) \in Range(inbound)

\* C33: in a session that stays alive, with the device acknowledging every
\* pending request, the outbound queue is emptied again and again, so that
\* every request that entered it is eventually written, and whenever no
\* slot of the queue can be reserved one can be reserved later
C33_Progress ==
  /\ (gcoderx # <<>>) ~> (gcoderx = <<>>)
  /\ (com_task = "running" /\ ~CanReserve) ~> CanReserve

\* the in-flight cap is reached with three requests whose acknowledgement
\* was lost, the queue is full behind it, and a further send is waiting
C33_Witness ==
  /\ com_task = "running"
  /\ Cardinality(DOMAIN pending_responses) = PendingCap
  /\ Cardinality({k \in 1..MaxProgressSends : Stale(k)}) = PendingCap - 1
  /\ Len(gcoderx) = QueueCap
  /\ sends < MaxProgressSends

C36_FailedSendKeepsCounter ==
  [][(/\ outcome' # outcome
      /\ outcome' # None
      /\ outcome'[1].op \in {"send", "try_send"})
       => UNCHANGED sequence]_vars

\* try_send was refused on a full queue behind a running loop after two
\* sequenced requests had taken their numbers
C36_Witness ==
  /\ com_task = "running"
  /\ Len(gcoderx) = QueueCap
  /\ outcome = Some(Error("try_send", "Sender"))
  /\ sequence = SequencedSerialize(SequencedSerialize(SequencedDefault, M1234).next,
                                   M1234).next

\* C38: a connect whose port does not open returns the error and leaves
\* the session and the task registry, with the tasks it holds, as they were
C38_FailedConnectChangesNothing ==
  [][(outcome' # outcome /\ outcome' = Some(Error("connect", "Io")))
       => UNCHANGED << printer, com_task, gcoderx, pending_responses,
                       transport, responses, inbound, sequence, oneshot,
                       tasks, task >>]_vars

\* C37: Gcodes, print, log and repeat dispatched while the printer is
\* Disconnected return the Disconnected error and leave the task registry,
\* the tasks, the macro table and the session as they were; and no step
\* taken while the printer is Disconnected registers or starts a task
C37_DisconnectedCommandsRefused ==
  [][/\ (outcome' # outcome /\ outcome' # None)
        => /\ printer = "Disconnected"
           /\ outcome'[1].error = "Disconnected"
           /\ UNCHANGED << tasks, task, macros, printer, com_task, gcoderx,
                           pending_responses, transport, responses, inbound,
                           sequence, oneshot >>
     /\ printer = "Disconnected"
        => /\ DOMAIN tasks' \subseteq DOMAIN tasks
           /\ \A p \in Producers :
                task'[p].state = "running" => task[p].state = "running"]_vars

\* a command was refused after a session in which a task ran, with a macro
\* defined
C37_Witness ==
  /\ printer = "Disconnected"
  /\ com_task = "exited"
  /\ outcome = Some(Error("socket", "Disconnected"))
  /\ macros # EmptyMap
  /\ tasks = EmptyMap
  /\ \E p \in Producers : task[p].state = "aborted"

\* C39: every task that is running is registered, under one name only; and
\* a step that puts another task under a name that is taken leaves the task
\* the name held before cancelled and the new one running
C39_OneLiveTaskPerName ==
  /\ [](\A p \in Producers :
          task[p].state = "running"
            => Cardinality({name \in DOMAIN tasks : tasks[name] = p}) = 1)
  /\ [][\A name \in DOMAIN tasks \cap DOMAIN tasks' :
          tasks'[name] # tasks[name]
            => /\ task'[tasks[name]].state # "running"
               /\ task[tasks[name]].state = "running"
                    => task'[tasks[name]].state = "aborted"
               /\ task'[tasks'[name]].state = "running"]_vars

\* `fan` was started again while its first task was running and had sent:
\* the name now holds the second task and the first is aborted
C39_Witness ==
  /\ "fan" \in DOMAIN tasks
  /\ tasks["fan"] = "p2"
  /\ task["p2"].state = "running"
  /\ task["p1"].state = "aborted"
  /\ task["p1"].acts > 0
  /\ task["p1"].description = "repeat"
  /\ task["p2"].description = "log"

\* C40: an insertion that was started returns, with Ok or with the cycle
\* error; no path of calls is ever longer than the number of names in the
\* table plus two; and what it returns and leaves in the table is what add
\* gives for the table and the steps it started from
C40_InsertionTerminates ==
  /\ (applied.op = "add" /\ applied.output.result = "running")
       ~> (applied.op = "add"
           /\ applied.output.result \in {"Ok", "InfiniteRecursion"})
  /\ [](applied.op = "add"
          => \A i \in 1..Len(applied.output.stack) :
               Len(applied.output.stack[i].already_expanded)
                 <= Cardinality(DOMAIN applied.input.table) + 1)
  /\ []((applied.op = "add" /\ applied.output.result # "running")
          => LET added == add(applied.input.table, applied.input.name,
                              applied.input.steps)
             IN  /\ applied.output.result = added.result
                 /\ macros = added.macros)

\* an insertion over a table in which a name expands to itself ended with
\* the cycle error
C40_Witness ==
  /\ applied.op = "add"
  /\ applied.output.result = "InfiniteRecursion"
  /\ \E name \in DOMAIN macros : name \in Range(macros[name])

=============================================================================
